---- MODULE Spec2Model ----
(***************************************************************************)
(* SophonPatcher: chunk-store reconstruction (sophon/src/sophon/chunk.rs)  *)
(* and the diff-plan builder (patcher/src/action/ldiff.rs).                *)
(*                                                                         *)
(* Bytes are integers 0..255, files are sequences of bytes.  A blob file   *)
(* is given by its size and a seed from which each of its bytes is         *)
(* computed, so that blobs above the 10 MiB mapping threshold can be       *)
(* sliced without storing them.                                            *)
(***************************************************************************)
EXTENDS Integers, Sequences, FiniteSets, TLC

\* ---------------------------------------------------------------- bounds
MaxAssets == 2
MaxChunks == 2
MaxBlobs == 2

\* ------------------------------------------------------- program constants
\* chunk.rs:131 `file_size > 10 * 1024 * 1024`
LargeFileThreshold == 10 * 1024 * 1024
\* chunk.rs:421 `chunk_size > 1024 * 1024`
ChunkMmapThreshold == 1024 * 1024

\* ------------------------------------------------------------ input domains
AssetNames == <<"data.bin", "b.bin", "c.bin", "d.bin">>
BlobNames == <<"blob1", "blob2", "blob3", "blob4">>
ChunkNames == {"c1", "c2"}
SmallBlobLen == 100
LargeBlobLen == LargeFileThreshold + 100

\* the manifest's chunk_size_decompressed of a content-addressed chunk
DecompressedSize(name) == IF name = "c1" THEN 60 ELSE 40
DestOffsets == {0, 60}

\* byte i (0-based) of the blob with the given seed
BlobByte(seed, i) == (seed * 101 + i * 7 + 1) % 256

AssetChunkDomain ==
    { [chunk_name |-> n, chunk_size_decompressed |-> DecompressedSize(n),
       chunk_on_file_offset |-> o] : n \in ChunkNames, o \in DestOffsets }

SeqsUpTo(S, n) == UNION { [1..k -> S] : k \in 0..n }

\* ------------------------------------------------------------------ files
NoFile == [exists |-> FALSE, data |-> <<>>]
FileOf(d) == [exists |-> TRUE, data |-> d]
EmptyDir == [n \in ChunkNames |-> NoFile]
NoDb == [exists |-> FALSE, entries |-> <<>>]
\* no index store is open; an open one remembers the file entry it is the
\* `<file name>_db` of
Closed == [exists |-> FALSE, entries |-> <<>>, blob |-> 0]

\* directories that hold staged chunks: output_path/chunk_tmp and the
\* relative path "chunk_tmp" resolved against the working directory
TempPath == "temp_path"
CwdTmp == "cwd_tmp"
DirIds == {TempPath, CwdTmp}

\* what an earlier run can have left behind: a file of an earlier version
\* at an asset's output path, chunks in output_path/chunk_tmp
OldFile == FileOf(<<7, 7, 7>>)
StaleFile == FileOf(<<9>>)
NoDir == [exists |-> FALSE, files |-> EmptyDir]
StaleDir == [exists |-> TRUE, files |-> [n \in ChunkNames |-> StaleFile]]

VARIABLES
    manifest,       \* SophonChunkProto.assets: <<[asset_name, asset_chunks]>>
    chunk_path,     \* state of the chunk directory: "ok", "missing", "unlistable"
    chunk_entries,  \* blob files of the directory in read_dir order
    outputIsCwd,    \* output_path is the process's working directory
    pc,             \* position of chunk_diff itself
    result,         \* "none", "Ok", "Err"
    database,       \* the opened index store
    dirs,           \* staging directories: [exists, files]
    outFiles,       \* files under output_path, by asset index
    wpc, wq, wpath, \* blob worker: position, extracted_chunks left, read path
    tpc, buf, tdone,\* asset task: position, shared buffer, chunks handled
    cw,             \* chunk writers of each asset, one per chunk: position
    buf_lock,       \* holder of each asset's buffer mutex (0: free)
    estimated_size, \* asset task: capacity computed for the buffer
    pbOwner,        \* holder of the progress-bar mutex (0: free)
    pbPoisoned,     \* the progress-bar mutex is poisoned: a holder panicked
    run,            \* number of the chunk_diff call being made (1 or 2)
    firstOut,       \* what the first call left under output_path
    firstResult,    \* what the first call returned
    dm_manifest,    \* make_diff_map: SophonManifestProto.assets
    chunk_names,    \* make_diff_map: names of the files in the ldiff folder
    dm_pc,          \* make_diff_map: "idle", "asset", "chunk", "flatten", "done"
    dm_g, dm_k,     \* make_diff_map: asset group and chunk being visited
    hdiff_files,    \* make_diff_map: one vector of entries per asset group
    hdiff_map,      \* make_diff_map: the returned plan
    rd_input,       \* slice readers: the component, blob length, offset, size
    rd_mapped,      \* slice readers: outcome of the memory-mapped path
    rd_buffered,    \* slice readers: outcome of the buffered path
    pt_mode,        \* patcher run: "none", "hdiff", "ldiff"
    pt_pc,          \* patcher run: "idle", "extract", "plan", "patch", "cleanup", "done"
    pt_result,      \* patcher run: "none", "Ok", "Err", "Panic"
    game_files,     \* patcher run: names of the files under game_path
    ldiff_e,        \* ldiff: index of the ldiff folder entry being extracted
    pw,             \* patch phase: position of the worker of each plan entry
    pt_owner,       \* patch phase: holder of the progress-bar mutex (0: free)
    pt_poisoned,    \* patch phase: the progress-bar mutex is poisoned
    err_list,       \* patch phase: names pushed for failed applications
    reported,       \* patch phase: the names printed after the batch
    exe_cell,       \* HPATCHZ_EXE_PATH: 0 when empty, else the extraction that filled it
    exe_dir,        \* the extraction directory with the executable exists
    extractions,    \* number of times extract_exe_once has run
    gp,             \* get_exe_path callers: position of each caller
    gp_init         \* get_exe_path: the caller running the initializer (0: none)

inputVars == <<manifest, chunk_path, chunk_entries, outputIsCwd>>
workerVars == <<wpc, wq, wpath>>
taskVars == <<tpc, buf, tdone, estimated_size, pbOwner, pbPoisoned>>
writerVars == <<cw, buf_lock>>
runVars == <<run, firstOut, firstResult>>
chunkVars == <<manifest, chunk_path, chunk_entries, outputIsCwd, pc, result,
               database, dirs, outFiles, wpc, wq, wpath, tpc, buf, tdone,
               estimated_size, pbOwner, pbPoisoned, run, firstOut, firstResult,
               cw, buf_lock>>
planVars == <<dm_manifest, chunk_names, dm_pc, dm_g, dm_k, hdiff_files, hdiff_map>>
readVars == <<rd_input, rd_mapped, rd_buffered>>
hpVars == <<exe_cell, exe_dir, extractions, gp, gp_init>>
patchVars == <<pt_mode, pt_pc, pt_result, game_files, ldiff_e, pw, pt_owner,
               pt_poisoned, err_list, reported, exe_cell, exe_dir, extractions,
               gp, gp_init>>
vars == <<manifest, chunk_path, chunk_entries, outputIsCwd, pc, result,
          database, dirs, outFiles, wpc, wq, wpath, tpc, buf, tdone,
          estimated_size, pbOwner, pbPoisoned, run, firstOut, firstResult,
          cw, buf_lock,
          dm_manifest, chunk_names, dm_pc, dm_g, dm_k, hdiff_files, hdiff_map,
          rd_input, rd_mapped, rd_buffered,
          pt_mode, pt_pc, pt_result, game_files, ldiff_e, pw, pt_owner,
          pt_poisoned, err_list, reported, exe_cell, exe_dir, extractions,
          gp, gp_init>>

Assets == 1..Len(manifest)
Blobs == 1..Len(chunk_entries)

\* ----------------------------------------------------------- pure helpers
Max(S) == CHOOSE x \in S : \A y \in S : y <= x

\* chunk.rs:23-28: last insertion for a name wins
cache_list ==
    LET flat == { <<a, k>> : a \in Assets, k \in 1..MaxChunks + 1 }
        occ(n) == { p \in flat : /\ p[2] <= Len(manifest[p[1]].asset_chunks)
                                 /\ manifest[p[1]].asset_chunks[p[2]].chunk_name = n }
        last(n) == CHOOSE p \in occ(n) : \A q \in occ(n) :
                       q[1] < p[1] \/ (q[1] = p[1] /\ q[2] <= p[2])
    IN [n \in { n \in ChunkNames : occ(n) # {} } |->
            manifest[last(n)[1]].asset_chunks[last(n)[2]].chunk_size_decompressed]

\* An index key is a chunk name or BadUtf8, a key that is not valid UTF-8.
\* An index value is a string of characters: the digits 0..9, and NonDigit
\* for any other character.
BadUtf8 == "<not utf-8>"
NonDigit == 10
None == -1

\* chunk.rs:83 String::from_utf8(key)
Utf8Ok(key) == key # BadUtf8

\* chunk.rs:88 v.parse::<u64>().ok(): None for an empty string or a non-digit
RECURSIVE ParseDigits(_, _)
ParseDigits(v, acc) ==
    IF v = <<>> THEN acc
    ELSE IF Head(v) \notin 0..9 THEN None
    ELSE ParseDigits(Tail(v), acc * 10 + Head(v))
ParseU64(v) == IF v = <<>> THEN None ELSE ParseDigits(v, 0)

\* CollectExtracted that ends the iteration at the first malformed entry
RECURSIVE CollectExtracted_StopAtMalformed(_, _)
CollectExtracted_StopAtMalformed(entries, cache) ==
    IF entries = <<>> THEN <<>>
    ELSE LET e == Head(entries)
             rest == CollectExtracted_StopAtMalformed(Tail(entries), cache)
         IN IF ~Utf8Ok(e.key) THEN <<>>
            ELSE IF ParseU64(e.value) = None THEN <<>>
            ELSE IF e.key \in DOMAIN cache
                 THEN <<[key |-> e.key, offset |-> ParseU64(e.value),
                         size |-> cache[e.key]]>> \o rest
                 ELSE rest

\* chunk.rs:82-97: the entries of the index that name a wanted chunk
RECURSIVE CollectExtracted(_, _)
CollectExtracted(entries, cache) ==
    IF entries = <<>> THEN <<>>
    ELSE LET e == Head(entries)
             rest == CollectExtracted(Tail(entries), cache)
         IN IF ~Utf8Ok(e.key) THEN rest
            ELSE IF ParseU64(e.value) = None THEN rest
            ELSE IF e.key \in DOMAIN cache
                 THEN <<[key |-> e.key, offset |-> ParseU64(e.value),
                         size |-> cache[e.key]]>> \o rest
                 ELSE rest

\* chunk.rs:135-136: slice of the mapped blob, or no result
MmapSlice(blob, offset, size) ==
    IF offset + size <= blob.size
    THEN FileOf([i \in 1..size |-> BlobByte(blob.seed, offset + i - 1)])
    ELSE NoFile

\* chunk.rs:361-373: seek, then read_exact into a buffer of `size` bytes
BufReaderSlice(blob, offset, size) ==
    LET avail == IF offset >= blob.size THEN 0 ELSE blob.size - offset
        got == IF avail < size THEN avail ELSE size
    IN IF got < size THEN NoFile
       ELSE FileOf([i \in 1..size |-> BlobByte(blob.seed, offset + i - 1)])

\* the directory a path names
RelativeChunkTmp == IF outputIsCwd THEN TempPath ELSE CwdTmp
\* chunk.rs:137 `temp_path.join(&key)`
MmapStageDir == TempPath
\* chunk.rs:375 `Path::new("chunk_tmp").join(key)`
BufReaderStageDir == RelativeChunkTmp

\* fs::write(dir/key, data), creating the directory when it is missing
WriteStaged(d, dir, key, data) ==
    [d EXCEPT ![dir] = [exists |-> TRUE,
                        files |-> [d[dir].files EXCEPT ![key] = FileOf(data)]]]

\* Vec::resize(new_len, value)
Resize(v, new_len, value) ==
    IF new_len > Len(v) THEN v \o [i \in 1..(new_len - Len(v)) |-> value]
    ELSE SubSeq(v, 1, new_len)

\* chunk.rs:269 buf[offset..offset + src.len()].copy_from_slice(src)
CopyFromSlice(v, offset, src) ==
    [i \in 1..Len(v) |-> IF i > offset /\ i <= offset + Len(src)
                         THEN src[i - offset] ELSE v[i]]

\* chunk.rs:404-450 read_chunk_data: the whole staged file through either
\* reader, an empty vector when the file cannot be opened
read_chunk_data(file) ==
    IF ~file.exists THEN <<>>
    ELSE IF Len(file.data) > ChunkMmapThreshold THEN file.data
    ELSE file.data

\* chunk.rs:225-240: max of offset + staged length over the staged chunks
EstimatedSize(chunks, staged) ==
    LET sizes == { chunks[k].chunk_on_file_offset
                       + Len(staged[chunks[k].chunk_name].data) :
                   k \in { j \in 1..Len(chunks) :
                             staged[chunks[j].chunk_name].exists } }
    IN IF sizes = {} THEN 0 ELSE Max(sizes)

\* chunk.rs:231, 243: `offset as usize + len` over the staged chunks. A
\* negative destination offset becomes a value of 2^64 + offset: the sum
\* either stays below 2^64, and Vec::with_capacity panics on a capacity
\* above isize::MAX, or passes 2^64, which panics where overflow is
\* checked and wraps to offset + len where it is not.
HugeCapacity(chunks, staged) ==
    \E k \in 1..Len(chunks) :
        /\ staged[chunks[k].chunk_name].exists
        /\ chunks[k].chunk_on_file_offset < 0
        /\ chunks[k].chunk_on_file_offset + Len(staged[chunks[k].chunk_name].data) < 0
AddOverflows(chunks, staged) ==
    \E k \in 1..Len(chunks) :
        /\ staged[chunks[k].chunk_name].exists
        /\ chunks[k].chunk_on_file_offset < 0
        /\ chunks[k].chunk_on_file_offset + Len(staged[chunks[k].chunk_name].data) >= 0

\* chunk.rs:264-269 with `offset as usize` of a negative offset: the sum
\* overflows or the resize exceeds the capacity limit or the slice's start
\* lies beyond its end; each of them panics
CopyPanics(chunk, buffer) == chunk.chunk_on_file_offset < 0 /\ buffer # <<>>

\* ------------------------------------------------------------------ inputs
IndexValues == { <<0>>, <<6, 0>> }
\* an index store in key order: each chunk name absent or at one offset
IndexChoices ==
    { [exists |-> TRUE, entries |-> e] :
        e \in { <<>>,
                <<[key |-> "c1", value |-> <<0>>]>>,
                <<[key |-> "c2", value |-> <<6, 0>>]>>,
                <<[key |-> "c1", value |-> <<0>>], [key |-> "c2", value |-> <<6, 0>>]>>,
                <<[key |-> "c1", value |-> <<0>>], [key |-> "c2", value |-> <<8, 0>>]>>,
                <<[key |-> BadUtf8, value |-> <<0>>], [key |-> "c1", value |-> <<NonDigit>>],
                  [key |-> "c2", value |-> <<6, 0>>]>>,
                <<[key |-> "c1", value |-> <<0>>], [key |-> BadUtf8, value |-> <<6, 0>>],
                  [key |-> "c2", value |-> <<>>]>> } }
FullIndex ==
    [exists |-> TRUE,
     entries |-> <<[key |-> "c1", value |-> <<0>>], [key |-> "c2", value |-> <<6, 0>>]>>]

\* a blob file: its size, whether the platform can map it, its index store,
\* and whether File::open and File::metadata succeed on it
Blob(i, size, mappable, db) ==
    [name |-> BlobNames[i], seed |-> i, size |-> size, mappable |-> mappable, db |-> db,
     readable |-> "ok"]
Unreadable(blob, how) == [blob EXCEPT !.readable = how]

\* the first file entry of the chunk directory
FirstBlobs ==
    { Blob(1, sm[1], sm[2], db) :
        sm \in {<<SmallBlobLen, TRUE>>, <<LargeBlobLen, TRUE>>, <<LargeBlobLen, FALSE>>},
        db \in IndexChoices \cup {NoDb} }
    \cup { Unreadable(Blob(1, SmallBlobLen, TRUE, FullIndex), how) :
             how \in {"open fails", "metadata fails"} }

C1OnlyIndex == [exists |-> TRUE, entries |-> <<[key |-> "c1", value |-> <<0>>]>>]

\* the i-th file entry, i > 1; from the third on a large blob or one that
\* cannot be opened
OtherBlobs(i) ==
    IF i = 2
    THEN { Blob(i, SmallBlobLen, TRUE, C1OnlyIndex), Blob(i, LargeBlobLen, TRUE, C1OnlyIndex),
           Blob(i, SmallBlobLen, TRUE, NoDb),
           Unreadable(Blob(i, SmallBlobLen, TRUE, C1OnlyIndex), "open fails") }
    ELSE { Blob(i, LargeBlobLen, TRUE, C1OnlyIndex),
           Unreadable(Blob(i, SmallBlobLen, TRUE, C1OnlyIndex), "open fails") }

RECURSIVE MoreBlobs(_, _)
MoreBlobs(i, n) ==
    IF i > n THEN {<<>>}
    ELSE { <<b>> \o r : b \in OtherBlobs(i), r \in MoreBlobs(i + 1, n) }

ChunkDirs ==
    {<<>>} \cup UNION { { <<b>> \o r : b \in FirstBlobs, r \in MoreBlobs(2, n) } :
                        n \in 1..MaxBlobs }

\* the first asset of the manifest
FirstAssets ==
    [asset_name : {AssetNames[1]},
     asset_chunks : SeqsUpTo(AssetChunkDomain, MaxChunks)]

\* the i-th asset, i > 1
OtherAssets(i) ==
    [asset_name : {AssetNames[i]},
     asset_chunks :
        { <<[chunk_name |-> "c1", chunk_size_decompressed |-> 60, chunk_on_file_offset |-> 0]>>,
          <<[chunk_name |-> "c2", chunk_size_decompressed |-> 40, chunk_on_file_offset |-> 60]>> }]

RECURSIVE MoreAssets(_, _)
MoreAssets(i, n) ==
    IF i > n THEN {<<>>}
    ELSE { <<a>> \o r : a \in OtherAssets(i), r \in MoreAssets(i + 1, n) }

Manifests ==
    UNION { { <<a>> \o r : a \in FirstAssets, r \in MoreAssets(2, n) } : n \in 1..MaxAssets }

\* scenario A: data.bin = c1 at 0 (60 bytes), c2 at 60 (40 bytes)
ChunkC1 == [chunk_name |-> "c1", chunk_size_decompressed |-> 60, chunk_on_file_offset |-> 0]
ChunkC2 == [chunk_name |-> "c2", chunk_size_decompressed |-> 40, chunk_on_file_offset |-> 60]
ScenarioA == <<[asset_name |-> "data.bin", asset_chunks |-> <<ChunkC1, ChunkC2>>]>>

CoreManifests ==
    { ScenarioA,
      <<[asset_name |-> "data.bin", asset_chunks |-> <<ChunkC1, ChunkC2>>],
        [asset_name |-> "b.bin", asset_chunks |-> <<ChunkC1>>]>> }
\* manifests in which one asset has a chunk at a negative destination offset
PanicManifests ==
    { <<[asset_name |-> "data.bin", asset_chunks |-> <<ChunkC1, ChunkC2>>],
        [asset_name |-> "b.bin",
         asset_chunks |-> <<[chunk_name |-> "c1", chunk_size_decompressed |-> 60,
                             chunk_on_file_offset |-> -100]>>]>>,
      <<[asset_name |-> "data.bin",
         asset_chunks |-> <<[chunk_name |-> "c2", chunk_size_decompressed |-> 40,
                             chunk_on_file_offset |-> -1]>>],
        [asset_name |-> "b.bin", asset_chunks |-> <<ChunkC1>>]>> }

\* a manifest with a chunk of decompressed size 0 placed beyond the end of
\* the other chunk
EmptyChunkManifests ==
    { <<[asset_name |-> "data.bin",
         asset_chunks |-> <<ChunkC1,
                            [chunk_name |-> "c2", chunk_size_decompressed |-> 0,
                             chunk_on_file_offset |-> 100]>>]>> }

CoreChunkDirs ==
    { <<Blob(1, sz, TRUE, FullIndex)>> : sz \in {SmallBlobLen, LargeBlobLen} }

\* make_diff_map is not running
PlanIdle ==
    /\ dm_manifest = <<>>
    /\ chunk_names = <<>>
    /\ dm_pc = "idle"
    /\ dm_g = 0
    /\ dm_k = 0
    /\ hdiff_files = <<>>
    /\ hdiff_map = <<>>

\* outcomes of a slice read: not read yet, no result, the bytes read, a
\* panic. The readers of ldiff_file return a run of the blob, the bytes at
\* [start, start + len), which is not spelled out byte by byte.
Unread == [kind |-> "unread", start |-> 0, len |-> 0, data |-> <<>>]
NoResult == [kind |-> "none", start |-> 0, len |-> 0, data |-> <<>>]
Panicked == [kind |-> "panic", start |-> 0, len |-> 0, data |-> <<>>]
Bytes(start, d) == [kind |-> "bytes", start |-> start, len |-> Len(d), data |-> d]
Run(start, len) == [kind |-> "bytes", start |-> start, len |-> len, data |-> <<>>]

\* no slice reader is being exercised
ReadIdle ==
    /\ rd_input = [component |-> "none", blob_len |-> 0, offset |-> 0, size |-> 0]
    /\ rd_mapped = Unread
    /\ rd_buffered = Unread

\* no patcher run and no get_exe_path call is being made
PatchIdle ==
    /\ pt_mode = "none"
    /\ pt_pc = "idle"
    /\ pt_result = "none"
    /\ game_files = {}
    /\ ldiff_e = 0
    /\ pw = <<>>
    /\ pt_owner = 0
    /\ pt_poisoned = FALSE
    /\ err_list = <<>>
    /\ reported = <<>>
    /\ exe_cell = 0
    /\ exe_dir = FALSE
    /\ extractions = 0
    /\ gp = <<>>
    /\ gp_init = 0

\* chunk_diff is about to be called: the output root is clean, or it holds
\* an earlier version of every asset and the staging directory of a run
\* that did not finish
Fresh ==
    /\ pc = "start"
    /\ result = "none"
    /\ database = Closed
    /\ \E used \in BOOLEAN :
          /\ dirs = [d \in DirIds |-> IF used /\ d = TempPath THEN StaleDir ELSE NoDir]
          /\ outFiles = [a \in 1..Len(manifest) |-> IF used THEN OldFile ELSE NoFile]
    /\ wpc = [b \in 1..Len(chunk_entries) |-> "idle"]
    /\ wq = [b \in 1..Len(chunk_entries) |-> <<>>]
    /\ wpath = [b \in 1..Len(chunk_entries) |-> "none"]
    /\ tpc = [a \in 1..Len(manifest) |-> "none"]
    /\ buf = [a \in 1..Len(manifest) |-> <<>>]
    /\ tdone = [a \in 1..Len(manifest) |-> {}]
    /\ estimated_size = [a \in 1..Len(manifest) |-> 0]
    /\ pbOwner = 0
    /\ pbPoisoned = FALSE
    /\ cw = [a \in 1..Len(manifest) |->
                [k \in 1..Len(manifest[a].asset_chunks) |-> "idle"]]
    /\ buf_lock = [a \in 1..Len(manifest) |-> 0]

\* ------------------------------------------------------------------- Init
Init ==
    /\ PlanIdle
    /\ ReadIdle
    /\ PatchIdle
    /\ manifest \in Manifests \cup PanicManifests \cup EmptyChunkManifests
    /\ chunk_entries \in ChunkDirs
    /\ manifest \in CoreManifests \/ chunk_entries \in CoreChunkDirs
    /\ chunk_path \in {"ok", "missing", "unlistable"}
    /\ chunk_path # "ok" => (manifest = ScenarioA /\ chunk_entries \in CoreChunkDirs)
    /\ outputIsCwd \in BOOLEAN
    /\ Fresh
    /\ dirs[TempPath].exists => manifest \in CoreManifests \cup PanicManifests
    /\ run = 1
    /\ firstOut = <<>>
    /\ firstResult = "none"

\* -------------------------------------------------------- chunk_diff: main
\* chunk.rs:51-52 Database::open(<file name of entry i>_db)
OpenDatabase(i) ==
    [exists |-> TRUE, entries |-> chunk_entries[i].db.entries, blob |-> i]

\* Preconditions with the staging directory recreated before the checks
Preconditions_RecreateFirst ==
    /\ pc = "start"
    /\ dirs' = [dirs EXCEPT ![TempPath] = [exists |-> TRUE, files |-> EmptyDir]]
    /\ IF chunk_path # "ok"
       THEN /\ pc' = "done" /\ result' = "Err" /\ UNCHANGED database
       ELSE IF chunk_entries = <<>>
       THEN /\ pc' = "done" /\ result' = "Err" /\ UNCHANGED database
       ELSE IF ~chunk_entries[1].db.exists
       THEN /\ pc' = "done" /\ result' = "Err" /\ UNCHANGED database
       ELSE /\ pc' = "recreate" /\ database' = OpenDatabase(1)
            /\ UNCHANGED result
    /\ UNCHANGED <<inputVars, outFiles, workerVars, taskVars, runVars, planVars, readVars, patchVars,
                   writerVars>>

\* chunk.rs:30-67: the structural preconditions, then the index is opened
\* for the first file entry of the directory
Preconditions ==
    /\ pc = "start"
    /\ IF chunk_path # "ok"
       THEN /\ pc' = "done" /\ result' = "Err" /\ UNCHANGED database
       ELSE IF chunk_entries = <<>>
       THEN /\ pc' = "done" /\ result' = "Err" /\ UNCHANGED database
       ELSE IF ~chunk_entries[1].db.exists
       THEN /\ pc' = "done" /\ result' = "Err" /\ UNCHANGED database
       ELSE /\ pc' = "recreate" /\ database' = OpenDatabase(1)
            /\ UNCHANGED result
    /\ UNCHANGED <<inputVars, dirs, outFiles, workerVars, taskVars, runVars, planVars, readVars, patchVars,
                   writerVars>>

\* RecreateStaging without the removal: create_dir_all alone
RecreateStaging_KeepOld ==
    /\ pc = "recreate"
    /\ dirs' = [dirs EXCEPT ![TempPath].exists = TRUE]
    /\ pc' = "extract"
    /\ wpc' = [b \in Blobs |-> "collect"]
    /\ UNCHANGED <<inputVars, result, database, outFiles, wq, wpath, taskVars, runVars, planVars, readVars, patchVars,
                   writerVars>>

\* chunk.rs:69-72: remove_dir_all(temp_path), create_dir_all(temp_path)
RecreateStaging ==
    /\ pc = "recreate"
    /\ dirs' = [dirs EXCEPT ![TempPath] = [exists |-> TRUE, files |-> EmptyDir]]
    /\ pc' = "extract"
    /\ wpc' = [b \in Blobs |-> "collect"]
    /\ UNCHANGED <<inputVars, result, database, outFiles, wq, wpath, taskVars, runVars, planVars, readVars, patchVars,
                   writerVars>>

\* ------------------------------------------------- chunk_diff: blob workers
\* WorkerCollect that fails the whole run when its blob cannot be read
WorkerCollect_FailRun(b) ==
    /\ pc = "extract"
    /\ wpc[b] = "collect"
    /\ LET extracted_chunks == CollectExtracted(database.entries, cache_list)
           file_size == chunk_entries[b].size
       IN IF extracted_chunks = <<>>
          THEN /\ wpc' = [wpc EXCEPT ![b] = "done"]
               /\ UNCHANGED <<wq, wpath, pc, result>>
          ELSE IF chunk_entries[b].readable # "ok"
          THEN /\ wpc' = [wpc EXCEPT ![b] = "done"]
               /\ pc' = "done" /\ result' = "Err"
               /\ UNCHANGED <<wq, wpath>>
          ELSE /\ wpc' = [wpc EXCEPT ![b] = "stage"]
               /\ wq' = [wq EXCEPT ![b] = extracted_chunks]
               /\ wpath' = [wpath EXCEPT ![b] =
                      IF file_size > LargeFileThreshold
                      THEN IF chunk_entries[b].mappable THEN "mmap" ELSE "fallback"
                      ELSE "bufreader"]
               /\ UNCHANGED <<pc, result>>
    /\ UNCHANGED <<inputVars, database, dirs, outFiles, taskVars, runVars, planVars, readVars, patchVars,
                   writerVars>>

\* chunk.rs:77-131, 172-182: one worker per file entry iterates the shared
\* index, then opens its blob and selects the read path; a failed mapping
\* falls back to process_with_bufreader; the worker returns when the blob
\* cannot be opened or its metadata cannot be read
WorkerCollect(b) ==
    /\ pc = "extract"
    /\ wpc[b] = "collect"
    /\ LET extracted_chunks == CollectExtracted(database.entries, cache_list)
           file_size == chunk_entries[b].size
       IN IF extracted_chunks = <<>> \/ chunk_entries[b].readable # "ok"
          THEN /\ wpc' = [wpc EXCEPT ![b] = "done"]
               /\ UNCHANGED <<wq, wpath>>
          ELSE /\ wpc' = [wpc EXCEPT ![b] = "stage"]
               /\ wq' = [wq EXCEPT ![b] = extracted_chunks]
               /\ wpath' = [wpath EXCEPT ![b] =
                      IF file_size > LargeFileThreshold
                      THEN IF chunk_entries[b].mappable THEN "mmap" ELSE "fallback"
                      ELSE "bufreader"]
    /\ UNCHANGED <<inputVars, pc, result, database, dirs, outFiles, taskVars, runVars, planVars, readVars, patchVars,
                   writerVars>>

\* chunk.rs:134-169 (mapped) and 358-399 (process_with_bufreader): the next
\* extracted chunk is sliced out of this worker's blob and written
WorkerStage(b) ==
    /\ pc = "extract"
    /\ wpc[b] = "stage"
    /\ wq[b] # <<>>
    /\ LET c == Head(wq[b])
           slice == IF wpath[b] = "mmap"
                    THEN MmapSlice(chunk_entries[b], c.offset, c.size)
                    ELSE BufReaderSlice(chunk_entries[b], c.offset, c.size)
           dir == IF wpath[b] = "mmap" THEN MmapStageDir ELSE BufReaderStageDir
       IN dirs' = IF slice.exists THEN WriteStaged(dirs, dir, c.key, slice.data)
                  ELSE dirs
    /\ wq' = [wq EXCEPT ![b] = Tail(wq[b])]
    /\ wpc' = [wpc EXCEPT ![b] = IF Tail(wq[b]) = <<>> THEN "done" ELSE "stage"]
    /\ UNCHANGED <<inputVars, pc, result, database, outFiles, wpath, taskVars, runVars, planVars, readVars, patchVars,
                   writerVars>>

ParIterReturned_AnyWorker == \E b \in Blobs : wpc[b] = "done"

\* chunk.rs:77-184: `chunk_entries.par_iter().for_each(..)` returns when the
\* closure has returned for every file entry
ParIterReturned == \A b \in Blobs : wpc[b] = "done"

\* chunk.rs:184-328: par_iter has returned for every blob; one task is
\* spawned per asset
SpawnTasks ==
    /\ pc = "extract"
    /\ ParIterReturned
    /\ tpc' = [a \in Assets |-> "spawned"]
    /\ pc' = "join"
    /\ UNCHANGED <<inputVars, result, database, dirs, outFiles, workerVars,
                   buf, tdone, estimated_size, pbOwner, pbPoisoned, runVars, planVars, readVars, patchVars,
                   writerVars>>

\* ------------------------------------------------- chunk_diff: asset tasks
\* chunk.rs:218-243: the task takes the progress-bar mutex (the guard lives
\* until the task ends), sizes and creates the empty shared buffer.
\* lock().unwrap() panics on a poisoned mutex; a task that panics while it
\* holds the guard poisons the mutex.
TaskBegin(a) ==
    /\ tpc[a] = "spawned"
    /\ pbOwner = 0
    /\ IF pbPoisoned
       THEN /\ tpc' = [tpc EXCEPT ![a] = "panicked"]
            /\ UNCHANGED <<buf, tdone, estimated_size, pbOwner, pbPoisoned>>
       ELSE \E overflow_checks \in BOOLEAN :
            IF \/ HugeCapacity(manifest[a].asset_chunks, dirs[TempPath].files)
               \/ overflow_checks /\ AddOverflows(manifest[a].asset_chunks, dirs[TempPath].files)
            THEN /\ tpc' = [tpc EXCEPT ![a] = "panicked"]
                 /\ pbPoisoned' = TRUE
                 /\ UNCHANGED <<buf, tdone, estimated_size, pbOwner>>
            ELSE /\ pbOwner' = a
                 /\ estimated_size' = [estimated_size EXCEPT ![a] =
                        EstimatedSize(manifest[a].asset_chunks, dirs[TempPath].files)]
                 /\ buf' = [buf EXCEPT ![a] = <<>>]
                 /\ tdone' = [tdone EXCEPT ![a] = {}]
                 /\ tpc' = [tpc EXCEPT ![a] = "copy"]
                 /\ UNCHANGED pbPoisoned
    /\ UNCHANGED <<inputVars, pc, result, database, dirs, outFiles, workerVars, runVars, planVars, readVars, patchVars,
                   writerVars>>

\* GrowAndCopy that sets the length to the end of the chunk it copies
GrowAndCopy_SetLen(v, offset, buffer) ==
    CopyFromSlice(Resize(v, offset + Len(buffer), 0), offset, buffer)

\* GrowAndCopy without the resize: only what fits the buffer is copied
GrowAndCopy_NoResize(v, offset, buffer) == CopyFromSlice(v, offset, buffer)

\* GrowAndCopy with the payload appended instead of placed at its offset
GrowAndCopy_Append(v, offset, buffer) == v \o buffer

\* chunk.rs:265-269 under the buffer's mutex: grow with zeros, then copy
GrowAndCopy(v, offset, buffer) ==
    LET grown == IF Len(v) < offset + Len(buffer)
                 THEN Resize(v, offset + Len(buffer), 0)
                 ELSE v
    IN CopyFromSlice(grown, offset, buffer)

\* chunk.rs:246-270: one parallel chunk writer of asset a, for chunk k; a
\* panic of a writer is resumed by for_each in the task, which unwinds
ChunkCopy(a, k) ==
    /\ tpc[a] = "copy"
    /\ k \in 1..Len(manifest[a].asset_chunks)
    /\ k \notin tdone[a]
    /\ LET chunk == manifest[a].asset_chunks[k]
           file == dirs[TempPath].files[chunk.chunk_name]
           buffer == read_chunk_data(file)
       IN IF file.exists /\ CopyPanics(chunk, buffer)
          THEN /\ tpc' = [tpc EXCEPT ![a] = "panicked"]
               /\ pbPoisoned' = TRUE
               /\ pbOwner' = 0
               /\ UNCHANGED <<buf, tdone>>
          ELSE /\ buf' = [buf EXCEPT ![a] =
                      IF ~file.exists \/ buffer = <<>> THEN buf[a]
                      ELSE GrowAndCopy(buf[a], chunk.chunk_on_file_offset, buffer)]
               /\ tdone' = [tdone EXCEPT ![a] = tdone[a] \cup {k}]
               /\ UNCHANGED <<tpc, pbOwner, pbPoisoned>>
    /\ UNCHANGED <<inputVars, pc, result, database, dirs, outFiles, workerVars,
                   estimated_size, runVars, planVars, readVars, patchVars,
                   writerVars>>

\* FinalWrite that creates the output file for an empty buffer too
FinalWrite_AlwaysCreate(old, final_buf) == FileOf(final_buf)

\* chunk.rs:282-324: File::create and write_all, only for a non-empty buffer
FinalWrite(old, final_buf) ==
    IF final_buf # <<>> THEN FileOf(final_buf) ELSE old

\* chunk.rs:272-325: the buffer is written to output_path/asset_name when it
\* is not empty; the task ends and its progress-bar guard is dropped
TaskWrite(a) ==
    /\ tpc[a] = "copy"
    /\ tdone[a] = 1..Len(manifest[a].asset_chunks)
    /\ outFiles' = [outFiles EXCEPT ![a] = FinalWrite(outFiles[a], buf[a])]
    /\ tpc' = [tpc EXCEPT ![a] = "done"]
    /\ pbOwner' = 0
    /\ UNCHANGED <<inputVars, pc, result, database, dirs, workerVars,
                   buf, tdone, estimated_size, pbPoisoned, runVars, planVars, readVars, patchVars,
                   writerVars>>

\* chunk.rs:330-337: join_all (a panicked task is a JoinError, ignored),
\* pb.lock().unwrap(), remove_dir_all(temp_path), Ok(()); the unwrap panics
\* out of chunk_diff when the mutex is poisoned
JoinAndCleanup ==
    /\ pc = "join"
    /\ \A a \in Assets : tpc[a] \in {"done", "panicked"}
    /\ IF pbPoisoned
       THEN /\ result' = "Panic"
            /\ UNCHANGED dirs
       ELSE /\ dirs' = [dirs EXCEPT ![TempPath] = NoDir]
            /\ result' = "Ok"
    /\ pc' = "done"
    /\ UNCHANGED <<inputVars, database, outFiles, workerVars, taskVars, runVars, planVars, readVars, patchVars,
                   writerVars>>

Next ==
    \/ Preconditions
    \/ RecreateStaging
    \/ \E b \in Blobs : WorkerCollect(b)
    \/ \E b \in Blobs : WorkerStage(b)
    \/ SpawnTasks
    \/ \E a \in Assets : TaskBegin(a)
    \/ \E a \in Assets : \E k \in 1..MaxChunks : ChunkCopy(a, k)
    \/ \E a \in Assets : TaskWrite(a)
    \/ JoinAndCleanup

Spec == Init /\ [][Next]_vars

\* chunk_diff is called a second time for the same manifest and chunk
\* directory, from the same state of the file system as the first time
RunAgain ==
    /\ pc = "done"
    /\ run = 1
    /\ run' = 2
    /\ firstOut' = outFiles
    /\ firstResult' = result
    /\ pc' = "start"
    /\ result' = "none"
    /\ database' = Closed
    /\ dirs' = [d \in DirIds |-> NoDir]
    /\ outFiles' = [a \in Assets |-> NoFile]
    /\ wpc' = [b \in Blobs |-> "idle"]
    /\ wq' = [b \in Blobs |-> <<>>]
    /\ wpath' = [b \in Blobs |-> "none"]
    /\ tpc' = [a \in Assets |-> "none"]
    /\ buf' = [a \in Assets |-> <<>>]
    /\ tdone' = [a \in Assets |-> {}]
    /\ estimated_size' = [a \in Assets |-> 0]
    /\ pbOwner' = 0
    /\ pbPoisoned' = FALSE
    /\ UNCHANGED <<inputVars, planVars, readVars, patchVars,
                   writerVars>>

RerunInit ==
    /\ Init
    /\ chunk_path = "ok"
    /\ manifest \in CoreManifests
    /\ ~dirs[TempPath].exists

RerunNext == Next \/ RunAgain

RerunSpec == RerunInit /\ [][RerunNext]_vars

\* chunk_diff is called a second time for the same manifest and chunk
\* directory, over the files the first call left behind
RunAgainInPlace ==
    /\ pc = "done"
    /\ run = 1
    /\ run' = 2
    /\ firstOut' = outFiles
    /\ firstResult' = result
    /\ pc' = "start"
    /\ result' = "none"
    /\ database' = Closed
    /\ wpc' = [b \in Blobs |-> "idle"]
    /\ wq' = [b \in Blobs |-> <<>>]
    /\ wpath' = [b \in Blobs |-> "none"]
    /\ tpc' = [a \in Assets |-> "none"]
    /\ buf' = [a \in Assets |-> <<>>]
    /\ tdone' = [a \in Assets |-> {}]
    /\ estimated_size' = [a \in Assets |-> 0]
    /\ pbOwner' = 0
    /\ pbPoisoned' = FALSE
    /\ UNCHANGED <<inputVars, dirs, outFiles, planVars, readVars, patchVars,
                   writerVars>>

InPlaceNext == Next \/ RunAgainInPlace

InPlaceSpec == RerunInit /\ [][InPlaceNext]_vars

\* ------------------------------------ chunk_diff: the steps of a chunk writer
\* the closure of asset_chunks.par_iter().for_each (chunk.rs:246-270) taken
\* statement by statement, in place of ChunkCopy

\* Mutex::lock that does not wait for the holder
MayLockBuf_NoWait(a) == TRUE
\* Mutex::lock that never returns
MayLockBuf_Never(a) == FALSE
\* chunk.rs:259 buf.lock(): the mutex of this asset's buffer is free
MayLockBuf(a) == buf_lock[a] = 0

\* chunk.rs:247-256: the writer looks for the staged chunk and reads it;
\* it returns when the file is missing or empty
WriterRead(a, k) ==
    /\ tpc[a] = "copy"
    /\ k \in 1..Len(manifest[a].asset_chunks)
    /\ cw[a][k] = "idle"
    /\ LET file == dirs[TempPath].files[manifest[a].asset_chunks[k].chunk_name]
       IN IF ~file.exists \/ read_chunk_data(file) = <<>>
          THEN /\ cw' = [cw EXCEPT ![a][k] = "done"]
               /\ tdone' = [tdone EXCEPT ![a] = tdone[a] \cup {k}]
          ELSE /\ cw' = [cw EXCEPT ![a][k] = "read"]
               /\ UNCHANGED tdone
    /\ UNCHANGED <<inputVars, pc, result, database, dirs, outFiles, workerVars,
                   tpc, buf, estimated_size, pbOwner, pbPoisoned, buf_lock,
                   runVars, planVars, readVars, patchVars>>

\* chunk.rs:259-262: the writer takes the mutex of the asset's buffer
WriterLock(a, k) ==
    /\ tpc[a] = "copy"
    /\ k \in 1..Len(manifest[a].asset_chunks)
    /\ cw[a][k] = "read"
    /\ MayLockBuf(a)
    /\ buf_lock' = [buf_lock EXCEPT ![a] = k]
    /\ cw' = [cw EXCEPT ![a][k] = "locked"]
    /\ UNCHANGED <<inputVars, pc, result, database, dirs, outFiles, workerVars,
                   taskVars, runVars, planVars, readVars, patchVars>>

\* chunk.rs:264-267: the length check and the resize with zeros; with a
\* negative offset the writer panics: the unwinding drops its guard of the
\* buffer, for_each resumes the panic in the task, and the task unwinds
\* and drops its guard of the progress bar
WriterResize(a, k) ==
    /\ tpc[a] = "copy"
    /\ k \in 1..Len(manifest[a].asset_chunks)
    /\ cw[a][k] = "locked"
    /\ LET chunk == manifest[a].asset_chunks[k]
           buffer == read_chunk_data(dirs[TempPath].files[chunk.chunk_name])
           offset == chunk.chunk_on_file_offset
       IN IF CopyPanics(chunk, buffer)
          THEN /\ tpc' = [tpc EXCEPT ![a] = "panicked"]
               /\ pbPoisoned' = TRUE
               /\ pbOwner' = 0
               /\ cw' = [cw EXCEPT ![a][k] = "panicked"]
               /\ buf_lock' = [buf_lock EXCEPT ![a] = 0]
               /\ UNCHANGED buf
          ELSE /\ buf' = [buf EXCEPT ![a] =
                      IF Len(buf[a]) < offset + Len(buffer)
                      THEN Resize(buf[a], offset + Len(buffer), 0)
                      ELSE buf[a]]
               /\ cw' = [cw EXCEPT ![a][k] = "resized"]
               /\ UNCHANGED <<tpc, pbOwner, pbPoisoned, buf_lock>>
    /\ UNCHANGED <<inputVars, pc, result, database, dirs, outFiles, workerVars,
                   tdone, estimated_size, runVars, planVars, readVars,
                   patchVars>>

\* chunk.rs:269-270: copy_from_slice into the buffer; the closure ends and
\* the guard is dropped
WriterCopy(a, k) ==
    /\ tpc[a] = "copy"
    /\ k \in 1..Len(manifest[a].asset_chunks)
    /\ cw[a][k] = "resized"
    /\ LET chunk == manifest[a].asset_chunks[k]
           buffer == read_chunk_data(dirs[TempPath].files[chunk.chunk_name])
       IN buf' = [buf EXCEPT ![a] =
                     CopyFromSlice(buf[a], chunk.chunk_on_file_offset, buffer)]
    /\ cw' = [cw EXCEPT ![a][k] = "done"]
    /\ tdone' = [tdone EXCEPT ![a] = tdone[a] \cup {k}]
    /\ buf_lock' = [buf_lock EXCEPT ![a] = IF buf_lock[a] = k THEN 0 ELSE buf_lock[a]]
    /\ UNCHANGED <<inputVars, pc, result, database, dirs, outFiles, workerVars,
                   tpc, estimated_size, pbOwner, pbPoisoned, runVars, planVars,
                   readVars, patchVars>>

\* manifests for the writers: one asset with any chunks of the domain, or
\* the two assets of the core manifests
WriterManifests ==
    { <<a>> : a \in FirstAssets } \cup CoreManifests

WriterInit ==
    /\ Init
    /\ chunk_path = "ok"
    /\ manifest \in WriterManifests
    /\ chunk_entries \in CoreChunkDirs
    /\ ~dirs[TempPath].exists

WriterNext ==
    \/ Preconditions
    \/ RecreateStaging
    \/ \E b \in Blobs : WorkerCollect(b)
    \/ \E b \in Blobs : WorkerStage(b)
    \/ SpawnTasks
    \/ \E a \in Assets : TaskBegin(a)
    \/ \E a \in Assets : \E k \in 1..MaxChunks : WriterRead(a, k)
    \/ \E a \in Assets : \E k \in 1..MaxChunks : WriterLock(a, k)
    \/ \E a \in Assets : \E k \in 1..MaxChunks : WriterResize(a, k)
    \/ \E a \in Assets : \E k \in 1..MaxChunks : WriterCopy(a, k)
    \/ \E a \in Assets : TaskWrite(a)
    \/ JoinAndCleanup

WriterSpec == WriterInit /\ [][WriterNext]_vars

\* chunk_diff over any precondition outcome, with manifests that make a
\* task or a writer panic
TerminationInit ==
    /\ Init
    /\ manifest \in WriterManifests \cup PanicManifests \cup EmptyChunkManifests
    /\ chunk_entries \in CoreChunkDirs

\* the threads of the rayon pools and of the tokio runtime are scheduled
\* by the operating system: a step that can be taken is taken eventually
FairSpec == TerminationInit /\ [][WriterNext]_vars /\ WF_vars(WriterNext)

TypeOK ==
    /\ pc \in {"start", "recreate", "extract", "join", "done"}
    /\ result \in {"none", "Ok", "Err", "Panic"}
    /\ pbOwner \in 0..Len(manifest)
    /\ run \in 1..2

\* -------------------------------------------------------- chunk_diff claims
\* the offsets blob b's own index store lists for a chunk name
OwnOffsets(b, name) ==
    IF ~chunk_entries[b].db.exists THEN {}
    ELSE { ParseU64(chunk_entries[b].db.entries[i].value) :
             i \in { j \in 1..Len(chunk_entries[b].db.entries) :
                       /\ chunk_entries[b].db.entries[j].key = name
                       /\ ParseU64(chunk_entries[b].db.entries[j].value) # None } }

\* the blobs that hold the whole payload of a chunk at an indexed offset
Holders(c) ==
    { b \in Blobs : \E off \in OwnOffsets(b, c.chunk_name) :
                       off + c.chunk_size_decompressed <= chunk_entries[b].size }

\* bytes(c): the payload of a chunk held by exactly one blob
Payload(c) ==
    LET b == CHOOSE x \in Holders(c) : TRUE
        off == CHOOSE o \in OwnOffsets(b, c.chunk_name) :
                   o + c.chunk_size_decompressed <= chunk_entries[b].size
    IN [i \in 1..c.chunk_size_decompressed |-> BlobByte(chunk_entries[b].seed, off + i - 1)]

DestRange(c) ==
    (c.chunk_on_file_offset + 1)..(c.chunk_on_file_offset + c.chunk_size_decompressed)
Extent(chunks) ==
    Max({0} \cup { chunks[k].chunk_on_file_offset + chunks[k].chunk_size_decompressed :
                     k \in 1..Len(chunks) })

\* the chunks tile [0, extent) without overlap
Tiles(chunks) ==
    /\ chunks # <<>>
    /\ \A j, k \in 1..Len(chunks) : j # k => DestRange(chunks[j]) \cap DestRange(chunks[k]) = {}
    /\ UNION { DestRange(chunks[k]) : k \in 1..Len(chunks) } = 1..Extent(chunks)

AllPresent(chunks) == \A k \in 1..Len(chunks) : Cardinality(Holders(chunks[k])) = 1

\* the bytes placed by the (destination offset, payload) pairs of a tiling
Placed(chunks) ==
    [i \in 1..Extent(chunks) |->
        LET k == CHOOSE j \in 1..Len(chunks) : i \in DestRange(chunks[j])
        IN Payload(chunks[k])[i - chunks[k].chunk_on_file_offset]]

Zeros(n) == [i \in 1..n |-> 0]

\* C1 (as claimed): when chunk_diff has returned Ok, every asset whose
\* chunks tile its range and whose payloads are each held by a blob with a
\* matching index has been written with exactly the bytes placed by its
\* (offset, payload) pairs, on the mapped and on the buffered read path; in
\* scenario A data.bin is bytes(c1) || bytes(c2), 100 bytes.
C1_TiledAssetExact ==
    (pc = "done" /\ result = "Ok") =>
        \A a \in Assets :
            (Tiles(manifest[a].asset_chunks) /\ AllPresent(manifest[a].asset_chunks))
                => outFiles[a] = FileOf(Placed(manifest[a].asset_chunks))

\* scenario B: scenario A's manifest, one blob whose index lists c1 only
ScenarioB ==
    /\ manifest = ScenarioA
    /\ chunk_path = "ok"
    /\ Len(chunk_entries) = 1
    /\ chunk_entries[1].db = [exists |-> TRUE, entries |-> <<[key |-> "c1", value |-> <<0>>]>>]

\* C2 (as claimed): in scenario B chunk_diff leaves data.bin with 100 bytes,
\* bytes(c1) in [0,60) and zeros in [60,100).
C2_ScenarioBZeroFilled ==
    (pc = "done" /\ ScenarioB) =>
        /\ outFiles[1].exists
        /\ Len(outFiles[1].data) = 100
        /\ outFiles[1].data = Payload(ChunkC1) \o Zeros(40)

\* the slice worker b reads for the extracted chunk at the head of its queue
WorkerRead(b) ==
    IF wpath[b] = "mmap"
    THEN MmapSlice(chunk_entries[b], Head(wq[b]).offset, Head(wq[b]).size)
    ELSE BufReaderSlice(chunk_entries[b], Head(wq[b]).offset, Head(wq[b]).size)

\* C7 (as claimed): a wanted chunk that is read successfully, on the mapped,
\* the buffered or the fallback path, is written to staging_dir/<chunk name>
\* in the run's private staging directory.
C7_StagedInPrivateDir ==
    [][ \A b \in Blobs :
          (/\ wpc[b] = "stage"
           /\ wq'[b] = Tail(wq[b])
           /\ WorkerRead(b).exists)
          => dirs'[TempPath].files[Head(wq[b]).key] = WorkerRead(b) ]_vars

\* C8 (as claimed): the offsets a blob worker reads at come from the index
\* store of the blob it reads, for any number of blob files.
C8_OwnIndexOnly ==
    \A b \in Blobs : wpc[b] = "stage" => database.blob = b

\* a chunk name no blob's index lists is never staged
NeverStaged(c) == \A b \in Blobs : OwnOffsets(b, c.chunk_name) = {}
Affected(a) ==
    \E k \in 1..Len(manifest[a].asset_chunks) : NeverStaged(manifest[a].asset_chunks[k])
EveryBlobIndexed ==
    /\ chunk_path = "ok"
    /\ Blobs # {}
    /\ \A b \in Blobs : chunk_entries[b].db.exists

\* C9 (as claimed): when some asset references a chunk that is never staged,
\* chunk_diff returns Ok, every asset with all its chunks present is
\* assembled as if nothing were missing, and a second run leaves the
\* affected asset exactly as the first run did.
C9_MissingChunkDeterministic ==
    (pc = "done" /\ EveryBlobIndexed /\ \E a \in Assets : Affected(a)) =>
        /\ result = "Ok"
        /\ \A a \in Assets :
              /\ (~Affected(a) /\ Tiles(manifest[a].asset_chunks)
                               /\ AllPresent(manifest[a].asset_chunks))
                    => outFiles[a] = FileOf(Placed(manifest[a].asset_chunks))
              /\ (Affected(a) /\ run = 2) => outFiles[a] = firstOut[a]

\* C9, the determinism part alone
C9_SameOnEveryRun ==
    (pc = "done" /\ run = 2 /\ EveryBlobIndexed) =>
        \A a \in Assets : Affected(a) => outFiles[a] = firstOut[a]

\* the positions of asset a's buffer that a staged chunk's range covers
CoveredByStaged(a) ==
    UNION { (manifest[a].asset_chunks[k].chunk_on_file_offset + 1)
              ..(manifest[a].asset_chunks[k].chunk_on_file_offset
                  + Len(dirs[TempPath].files[manifest[a].asset_chunks[k].chunk_name].data)) :
            k \in { j \in 1..Len(manifest[a].asset_chunks) :
                      dirs[TempPath].files[manifest[a].asset_chunks[j].chunk_name].exists } }

\* C10: while an asset is assembled and once it is written, every byte
\* below the buffer's length that no staged chunk's destination range covers
\* is zero, in whatever order the chunk writers took the buffer; the file
\* written is the buffer.
C10_GapsAreZero ==
    \A a \in Assets :
        (pc = "join" /\ tpc[a] \in {"copy", "done"}) =>
            /\ LET covered == CoveredByStaged(a)
               IN \A i \in 1..Len(buf[a]) : i \notin covered => buf[a][i] = 0
            /\ (tpc[a] = "done" /\ buf[a] # <<>>) => outFiles[a] = FileOf(buf[a])

\* C10 witness: the later-offset chunk was copied first, the earlier one not
\* yet, and the grown buffer has bytes that no staged chunk covers.
C10_Witness ==
    \E a \in Assets :
        /\ pc = "join" /\ tpc[a] = "copy"
        /\ Len(manifest[a].asset_chunks) = 2
        /\ manifest[a].asset_chunks[1].chunk_on_file_offset
              < manifest[a].asset_chunks[2].chunk_on_file_offset
        /\ dirs[TempPath].files[manifest[a].asset_chunks[1].chunk_name].exists
        /\ tdone[a] = {2}
        /\ \E i \in 1..Len(buf[a]) : i \notin CoveredByStaged(a)

\* C10 witness at the end of a task: a written file with an uncovered byte.
C10_WrittenGap ==
    \E a \in Assets :
        /\ pc = "join" /\ tpc[a] = "done" /\ outFiles[a].exists
        /\ \E i \in 1..Len(outFiles[a].data) : i \notin CoveredByStaged(a)

\* the chunks of asset a that are present in the staging directory
StagedChunks(a) ==
    { k \in 1..Len(manifest[a].asset_chunks) :
        dirs[TempPath].files[manifest[a].asset_chunks[k].chunk_name].exists }
StagedData(a, k) == dirs[TempPath].files[manifest[a].asset_chunks[k].chunk_name].data
\* the positions of the buffer the staged chunk k of asset a is copied to
StagedRange(a, k) ==
    (manifest[a].asset_chunks[k].chunk_on_file_offset + 1)
        ..(manifest[a].asset_chunks[k].chunk_on_file_offset + Len(StagedData(a, k)))
DisjointStaged(a) ==
    \A j, k \in StagedChunks(a) : j # k => StagedRange(a, j) \cap StagedRange(a, k) = {}

\* the buffer that holds the staged chunks S of asset a at their offsets and
\* zeros elsewhere, as long as the farthest end of a chunk of S
BufOf(a, S) ==
    [i \in 1..Max({0} \cup { manifest[a].asset_chunks[k].chunk_on_file_offset
                               + Len(StagedData(a, k)) : k \in S }) |->
        IF \E k \in S : i \in StagedRange(a, k)
        THEN LET k == CHOOSE j \in S : i \in StagedRange(a, j)
             IN StagedData(a, k)[i - manifest[a].asset_chunks[k].chunk_on_file_offset]
        ELSE 0]

\* C11: within an asset whose staged chunks have pairwise disjoint
\* destination ranges, the buffer after any set of chunk writers has run is
\* fixed by that set alone, whatever order they ran in: its length is the
\* farthest end of a copied chunk that holds bytes (an empty staged chunk
\* is not copied) and each copied chunk sits at its offset;
\* so the final content and length are the same for every order.
C11_OrderIndependent ==
    \A a \in Assets :
        (pc = "join" /\ tpc[a] \in {"copy", "done"} /\ DisjointStaged(a))
            => LET copied == { k \in tdone[a] \cap StagedChunks(a) :
                                  StagedData(a, k) # <<>> }
               IN buf[a] = BufOf(a, copied)

\* C11 witness: of two staged chunks with disjoint ranges the one listed
\* second was copied first.
C11_Witness ==
    \E a \in Assets :
        /\ pc = "join" /\ tpc[a] = "copy"
        /\ StagedChunks(a) = {1, 2}
        /\ DisjointStaged(a)
        /\ tdone[a] = {2}
        /\ buf[a] = BufOf(a, {2})
        /\ buf[a] # <<>>

\* C11 witness at the end: both chunks are copied, 100 bytes.
C11_BothCopied ==
    \E a \in Assets :
        /\ pc = "join" /\ tpc[a] = "copy"
        /\ StagedChunks(a) = {1, 2}
        /\ DisjointStaged(a)
        /\ tdone[a] = {1, 2}
        /\ Len(buf[a]) = 100

\* C12: while the assets are assembled, no step creates, truncates or
\* changes the file at the output path of an asset none of whose chunks is
\* staged; the task of such an asset ends normally, without touching the
\* result of chunk_diff or poisoning the progress mutex.
C12_UnstagedAssetSkipped ==
    [][ \A a \in Assets :
          (pc = "join" /\ StagedChunks(a) = {}) =>
              /\ outFiles'[a] = outFiles[a]
              /\ (tpc[a] = "copy" /\ tpc'[a] # "copy") =>
                    /\ tpc'[a] = "done"
                    /\ result' = result
                    /\ pbPoisoned' = pbPoisoned ]_vars

\* C12 witness: chunk_diff returned Ok; an asset without staged chunk kept
\* the file of the earlier version while another asset was written.
C12_Witness ==
    /\ pc = "done" /\ result = "Ok"
    /\ \E a, b \in Assets :
          /\ buf[a] = <<>> /\ tpc[a] = "done"
          /\ outFiles[a] = OldFile
          /\ outFiles[b] = FileOf(buf[b]) /\ buf[b] # <<>>

\* a structural precondition of chunk_diff does not hold
PreconditionFails ==
    \/ chunk_path # "ok"
    \/ chunk_entries = <<>>
    \/ ~chunk_entries[1].db.exists

\* C13: when the chunk directory is missing or cannot be listed, holds no
\* blob file, or the index store cannot be opened, the first step of
\* chunk_diff returns an error and leaves the staging directory and the
\* output files as they were; no blob worker and no asset task ever runs.
C13_ErrorChangesNothing ==
    /\ [][ (pc = "start" /\ PreconditionFails) =>
              /\ pc' = "done" /\ result' = "Err"
              /\ dirs' = dirs
              /\ outFiles' = outFiles ]_vars
    /\ [](result = "Err" =>
              /\ pc = "done"
              /\ \A b \in Blobs : wpc[b] = "idle"
              /\ \A a \in Assets : tpc[a] = "none")

\* C13 witness: the index store of the first blob file cannot be opened;
\* chunk_diff returned an error, the staging directory left by an earlier
\* run and the installed file are still there.
C13_Witness ==
    /\ result = "Err"
    /\ chunk_path = "ok" /\ chunk_entries # <<>> /\ ~chunk_entries[1].db.exists
    /\ dirs[TempPath] = StaleDir
    /\ outFiles[1] = OldFile

\* C13 witnesses for the other causes
C13_MissingDir == result = "Err" /\ chunk_path = "missing" /\ dirs[TempPath] = StaleDir
C13_Unlistable == result = "Err" /\ chunk_path = "unlistable" /\ ~dirs[TempPath].exists
C13_NoBlobFile == result = "Err" /\ chunk_path = "ok" /\ chunk_entries = <<>>

\* an index entry whose key is not UTF-8 or whose value is not a decimal
\* unsigned integer
Malformed(entry) ==
    \/ entry.key = BadUtf8
    \/ entry.value = <<>>
    \/ \E i \in 1..Len(entry.value) : entry.value[i] \notin 0..9
\* the well-formed entries of the opened index that name a chunk of the
\* manifest, in index order
WantedEntry(entry) == ~Malformed(entry) /\ entry.key \in DOMAIN cache_list
WantedEntries == SelectSeq(database.entries, WantedEntry)
\* the directory worker b stages to
StageDirOf(b) == IF wpath[b] = "mmap" THEN MmapStageDir ELSE BufReaderStageDir

\* C14: the chunks a worker of a readable blob sets out to extract are all
\* the well-formed index entries that name a wanted chunk, in index order,
\* wherever malformed entries stand between them; and when extraction is
\* over each of them that lies within the blob has been staged.
C14_MalformedSkipped ==
    /\ [][ \A b \in Blobs :
              (wpc[b] = "collect" /\ wpc'[b] # "collect" /\ chunk_entries[b].readable = "ok") =>
                  LET wanted == WantedEntries
                  IN IF wanted = <<>> THEN wpc'[b] = "done"
                     ELSE /\ Len(wq'[b]) = Len(wanted)
                          /\ \A i \in 1..Len(wanted) :
                                /\ wq'[b][i].key = wanted[i].key
                                /\ wq'[b][i].offset = ParseDigits(wanted[i].value, 0) ]_vars
    /\ []((pc = "join" /\ \A a \in Assets : tpc[a] = "spawned") =>
              LET wanted == WantedEntries
                  cache == cache_list
              IN \A b \in Blobs : \A i \in 1..Len(wanted) :
                    (/\ chunk_entries[b].readable = "ok"
                     /\ ParseDigits(wanted[i].value, 0) + cache[wanted[i].key]
                           <= chunk_entries[b].size)
                    => dirs[StageDirOf(b)].files[wanted[i].key].exists)

\* C14 witness: extraction is over; the index has a malformed entry ahead
\* of a well-formed one, whose chunk is staged.
C14_Witness ==
    /\ pc = "join" /\ \A a \in Assets : tpc[a] = "spawned"
    /\ \E i, j \in 1..Len(database.entries) :
          /\ i < j
          /\ Malformed(database.entries[i])
          /\ WantedEntry(database.entries[j])
          /\ dirs[TempPath].files[database.entries[j].key].exists

\* C14 witness with the malformed entries behind the well-formed one.
C14_MalformedLast ==
    /\ pc = "join"
    /\ \E i, j \in 1..Len(database.entries) :
          /\ i < j
          /\ WantedEntry(database.entries[i])
          /\ Malformed(database.entries[j])
          /\ dirs[TempPath].files[database.entries[i].key].exists

\* C15: the worker of a blob file that cannot be opened, or whose size
\* cannot be read, stops without staging anything and without touching the
\* run; when extraction is over the other workers have staged every wanted
\* chunk that lies within their blob; and the run, once it is past its
\* preconditions, ends with Ok unless an asset task panicked.
C15_UnreadableBlobSkipped ==
    /\ [][ \A b \in Blobs :
              (chunk_entries[b].readable # "ok" /\ wpc[b] = "collect" /\ wpc'[b] # "collect") =>
                  /\ wpc'[b] = "done"
                  /\ dirs' = dirs
                  /\ pc' = pc /\ result' = result ]_vars
    /\ [](\A b \in Blobs : chunk_entries[b].readable # "ok" => wpc[b] # "stage" /\ wq[b] = <<>>)
    /\ []((\E u \in Blobs : chunk_entries[u].readable # "ok") =>
              /\ (pc = "join" /\ \A a \in Assets : tpc[a] = "spawned") =>
                    LET wanted == WantedEntries
                        cache == cache_list
                    IN \A b \in Blobs : \A i \in 1..Len(wanted) :
                          (/\ chunk_entries[b].readable = "ok"
                           /\ ParseDigits(wanted[i].value, 0) + cache[wanted[i].key]
                                 <= chunk_entries[b].size)
                          => dirs[StageDirOf(b)].files[wanted[i].key].exists
              /\ (pc = "done" /\ ~PreconditionFails /\ ~pbPoisoned) => result = "Ok")

\* C15 witness: chunk_diff returned Ok with a blob file that cannot be read;
\* its worker staged nothing, and an asset was assembled from the chunks
\* another worker staged.
C15_Witness ==
    /\ pc = "done" /\ result = "Ok"
    /\ \E u \in Blobs : chunk_entries[u].readable # "ok" /\ wpc[u] = "done" /\ wpath[u] = "none"
    /\ \E b \in Blobs : wpath[b] # "none"
    /\ \E a \in Assets : buf[a] # <<>> /\ outFiles[a] = FileOf(buf[a])

\* C15 witness for a blob whose metadata cannot be read.
C15_NoMetadata ==
    /\ pc = "done" /\ result = "Ok"
    /\ \E u \in Blobs : chunk_entries[u].readable = "metadata fails" /\ wpc[u] = "done"

\* the slice worker b reads for an extracted chunk of its queue
SliceOf(b, c) ==
    IF wpath[b] = "mmap"
    THEN MmapSlice(chunk_entries[b], c.offset, c.size)
    ELSE BufReaderSlice(chunk_entries[b], c.offset, c.size)
\* the workers that have the staged file of a chunk name still to write
Writers(dir, name) ==
    { b \in Blobs :
        /\ wpc[b] = "stage" /\ StageDirOf(b) = dir
        /\ \E i \in 1..Len(wq[b]) : wq[b][i].key = name /\ SliceOf(b, wq[b][i]).exists }

\* C17 (as claimed): for every chunk name at most one worker writes the
\* staged file of that name during a run, and a worker that writes a staged
\* file never replaces one written earlier in the run.
C17_OneWriterPerChunk ==
    /\ [](\A dir \in DirIds : \A name \in ChunkNames :
             pc = "extract" => Cardinality(Writers(dir, name)) <= 1)
    /\ [][ \A b \in Blobs :
             (/\ pc = "extract" /\ wpc[b] = "stage"
              /\ wq'[b] = Tail(wq[b])
              /\ WorkerRead(b).exists)
             => ~dirs[StageDirOf(b)].files[Head(wq[b]).key].exists ]_vars

\* C17, the first half alone: no two workers have the same staged file to
\* write.
C17_NoSharedTarget ==
    \A dir \in DirIds : \A name \in ChunkNames :
        pc = "extract" => Cardinality(Writers(dir, name)) <= 1

\* C17, the consequence alone: once extraction is over, the staged file of a
\* chunk name holds the slice of every blob whose worker wrote that name.
C17_StagedBytesScheduleFree ==
    \A b \in Blobs : \A name \in ChunkNames :
        (/\ pc = "join" /\ wpath[b] = "mmap"
         /\ \E i \in 1..Len(CollectExtracted(database.entries, cache_list)) :
               LET c == CollectExtracted(database.entries, cache_list)[i]
               IN c.key = name /\ SliceOf(b, c).exists)
        => \E i \in 1..Len(CollectExtracted(database.entries, cache_list)) :
               LET c == CollectExtracted(database.entries, cache_list)[i]
               IN c.key = name /\ dirs[TempPath].files[name] = SliceOf(b, c)

\* the tasks that hold or wait for the progress-bar mutex
Blocked(a) == pc = "join" /\ tpc[a] = "spawned" /\ pbOwner \notin {0, a}

\* C18 (as claimed): no lock held by one asset's task ever blocks another
\* asset's task.
C18_NoTaskBlocked ==
    \A a \in Assets : ~Blocked(a)

\* C18, what the code does instead: at most one asset's task is copying
\* chunks or about to write its output file at any time.
C18_OneAssemblyAtATime ==
    Cardinality({ a \in Assets : tpc[a] = "copy" }) <= 1

\* asset a has a chunk with a negative destination offset
NegativeOffset(a) ==
    \E k \in 1..Len(manifest[a].asset_chunks) :
        manifest[a].asset_chunks[k].chunk_on_file_offset < 0

\* C19 (as claimed): when the preconditions hold, chunk_diff returns Ok
\* whatever happens inside one asset's task, and the task of every asset
\* without a failure of its own runs to its end and writes the asset.
C19_FailureStaysInAsset ==
    (pc = "done" /\ ~PreconditionFails) =>
        /\ result = "Ok"
        /\ \A a \in Assets : ~NegativeOffset(a) =>
              /\ tpc[a] = "done"
              /\ outFiles[a] = FinalWrite(outFiles[a], buf[a])

\* C19, what the code does: one task panicked on a negative offset, the
\* task of a sound asset panicked on the poisoned progress-bar mutex and
\* wrote nothing, chunk_diff panicked and the staging directory is left.
C19_PanicSpreads ==
    /\ pc = "done" /\ result = "Panic" /\ dirs[TempPath].exists
    /\ \E a \in Assets : NegativeOffset(a) /\ tpc[a] = "panicked"
    /\ \E a \in Assets : ~NegativeOffset(a) /\ tpc[a] = "panicked" /\ ~outFiles[a].exists

\* C19, the other order: the sound asset's task ran first and wrote its
\* file, and chunk_diff still panicked afterwards.
C19_PanicAfterSoundAsset ==
    /\ pc = "done" /\ result = "Panic"
    /\ \E a \in Assets : ~NegativeOffset(a) /\ tpc[a] = "done" /\ outFiles[a] = FileOf(buf[a])

\* every spawned asset task has run to its end or panicked
AllTasksFinished == \A a \in Assets : tpc[a] \in {"done", "panicked"}

C20_StaleBefore ==
    pc = "recreate" /\ dirs[TempPath] = StaleDir

\* C21 (as claimed): a second run of chunk_diff over the same chunk
\* directory and manifest, started over the files of the first run, ends
\* with the same result and byte-identical output files.
C21_SecondRunIdentical ==
    (pc = "done" /\ run = 2) => (result = firstResult /\ outFiles = firstOut)

\* C21 restricted to a chunk directory with a single blob file and a
\* manifest whose chunks do not overlap: there the two runs agree.
C21_SingleBlobIdentical ==
    (pc = "done" /\ run = 2 /\ Len(chunk_entries) = 1) =>
        (result = firstResult /\ outFiles = firstOut)

\* C22 (as claimed): the file written for an asset with a staged chunk is
\* as long as the farthest end, destination offset + staged length, of the
\* asset's staged chunks.
C22_LengthIsFarthestEnd ==
    \A a \in Assets :
        (pc = "join" /\ tpc[a] = "done" /\ StagedChunks(a) # {}) =>
            /\ outFiles[a].exists
            /\ Len(outFiles[a].data)
                  = EstimatedSize(manifest[a].asset_chunks, dirs[TempPath].files)

\* C22 for the assets whose staged chunks all hold at least one byte.
C22_LengthOfNonEmptyChunks ==
    \A a \in Assets :
        (/\ pc = "join" /\ tpc[a] = "done" /\ StagedChunks(a) # {}
         /\ \A k \in StagedChunks(a) : StagedData(a, k) # <<>>) =>
            /\ outFiles[a].exists
            /\ Len(outFiles[a].data)
                  = EstimatedSize(manifest[a].asset_chunks, dirs[TempPath].files)

\* ------------------------------------------------ make_diff_map (ldiff.rs)
MaxGroups == 2
MaxGroupChunks == 2

NoAssetData == [some |-> FALSE, assets |-> <<>>]
SomeAssetData(chunks) == [some |-> TRUE, assets |-> chunks]

\* Asset records of the manifest's asset_data
DiffChunkDomain ==
    [chunk_file_name : {"blob1", "blob2"},
     original_file_size : {0, 100},
     original_file_path : {"", "old.bin"},
     hdiff_file_size : {50, 200}]

\* the records that follow the first one of a group: present in the ldiff
\* folder, without predecessor path
DiffChunkTailDomain ==
    [chunk_file_name : {"blob1"},
     original_file_size : {0, 100},
     original_file_path : {""},
     hdiff_file_size : {50, 200}]

RECURSIVE DiffChunkSeqs(_)
DiffChunkSeqs(n) ==
    IF n = 0 THEN {<<>>}
    ELSE IF n = 1 THEN { <<c>> : c \in DiffChunkDomain }
    ELSE { s \o <<c>> : s \in DiffChunkSeqs(n - 1), c \in DiffChunkTailDomain }

FirstGroups ==
    [asset_name : {"data.bin"},
     asset_size : {50, 200},
     asset_data : {NoAssetData}
                  \cup { SomeAssetData(c) :
                           c \in UNION { DiffChunkSeqs(n) : n \in 0..MaxGroupChunks } }]

\* the further asset groups of a manifest
OtherGroups(i) ==
    [asset_name : {AssetNames[i]},
     asset_size : {200},
     asset_data :
        { NoAssetData,
          SomeAssetData(<<[chunk_file_name |-> "blob1", original_file_size |-> 100,
                           original_file_path |-> "old2.bin", hdiff_file_size |-> 50]>>),
          SomeAssetData(<<[chunk_file_name |-> "blob1", original_file_size |-> 0,
                           original_file_path |-> "", hdiff_file_size |-> 50]>>),
          SomeAssetData(<<[chunk_file_name |-> "blob2", original_file_size |-> 0,
                           original_file_path |-> "", hdiff_file_size |-> 200]>>) }]

RECURSIVE MoreGroups(_, _)
MoreGroups(i, n) ==
    IF i > n THEN {<<>>}
    ELSE { <<g>> \o r : g \in OtherGroups(i), r \in MoreGroups(i + 1, n) }

DiffManifests ==
    UNION { { <<g>> \o r : g \in FirstGroups, r \in MoreGroups(2, n) } : n \in 1..MaxGroups }

\* ldiff.rs:203 chunk_names.iter().any(|name| name == &asset.chunk_file_name)
Available(names, chunk) ==
    \E i \in 1..Len(names) : names[i] = chunk.chunk_file_name

\* DiffEntries with the full-diff source taken from the target name
DiffEntries_SourceIsTarget(asset_name, asset_size, asset) ==
    IF asset.original_file_size # 0
    THEN <<[source_file_name |-> asset_name,
            target_file_name |-> asset_name,
            patch_file_name |-> asset_name \o ".hdiff"]>>
    ELSE IF asset.hdiff_file_size # asset_size
    THEN <<[source_file_name |-> asset.original_file_path,
            target_file_name |-> asset_name,
            patch_file_name |-> asset_name]>>
    ELSE <<>>

\* DiffEntries with the payload-only patch named like a full diff
DiffEntries_PayloadSuffix(asset_name, asset_size, asset) ==
    IF asset.original_file_size # 0
    THEN <<[source_file_name |-> asset.original_file_path,
            target_file_name |-> asset_name,
            patch_file_name |-> asset_name \o ".hdiff"]>>
    ELSE IF asset.hdiff_file_size # asset_size
    THEN <<[source_file_name |-> asset.original_file_path,
            target_file_name |-> asset_name,
            patch_file_name |-> asset_name \o ".hdiff"]>>
    ELSE <<>>

\* DiffEntries with the size comparison `<` in place of `!=`
DiffEntries_SizeLess(asset_name, asset_size, asset) ==
    IF asset.original_file_size # 0
    THEN <<[source_file_name |-> asset.original_file_path,
            target_file_name |-> asset_name,
            patch_file_name |-> asset_name \o ".hdiff"]>>
    ELSE IF asset.hdiff_file_size < asset_size
    THEN <<[source_file_name |-> asset.original_file_path,
            target_file_name |-> asset_name,
            patch_file_name |-> asset_name]>>
    ELSE <<>>

\* ldiff.rs:205-219: the entries one available Asset record contributes
DiffEntries(asset_name, asset_size, asset) ==
    IF asset.original_file_size # 0
    THEN <<[source_file_name |-> asset.original_file_path,
            target_file_name |-> asset_name,
            patch_file_name |-> asset_name \o ".hdiff"]>>
    ELSE IF asset.hdiff_file_size # asset_size
    THEN <<[source_file_name |-> asset.original_file_path,
            target_file_name |-> asset_name,
            patch_file_name |-> asset_name]>>
    ELSE <<>>

\* flatten() taking the per-group vectors last to first
RECURSIVE Flatten_LastGroupFirst(_)
Flatten_LastGroupFirst(vs) ==
    IF vs = <<>> THEN <<>> ELSE Flatten_LastGroupFirst(Tail(vs)) \o Head(vs)

\* ldiff.rs:228 hdiff_files.into_iter().flatten().collect()
RECURSIVE Flatten(_)
Flatten(vs) == IF vs = <<>> THEN <<>> ELSE Head(vs) \o Flatten(Tail(vs))

\* ldiff.rs:192-229 as a function of the manifest and the entry names
RECURSIVE AssetEntries(_, _, _)
AssetEntries(group, assets, names) ==
    IF assets = <<>> THEN <<>>
    ELSE (IF Available(names, Head(assets))
          THEN DiffEntries(group.asset_name, group.asset_size, Head(assets))
          ELSE <<>>) \o AssetEntries(group, Tail(assets), names)

RECURSIVE MakeDiffMap(_, _)
MakeDiffMap(groups, names) ==
    IF groups = <<>> THEN <<>>
    ELSE (IF Head(groups).asset_data.some
          THEN AssetEntries(Head(groups), Head(groups).asset_data.assets, names)
          ELSE <<>>) \o MakeDiffMap(Tail(groups), names)

\* the chunk directory of chunk_diff is not in use
ChunkIdle ==
    /\ manifest = <<>>
    /\ chunk_path = "ok"
    /\ chunk_entries = <<>>
    /\ outputIsCwd = FALSE
    /\ pc = "idle"
    /\ result = "none"
    /\ database = Closed
    /\ dirs = [d \in DirIds |-> NoDir]
    /\ outFiles = <<>>
    /\ wpc = <<>> /\ wq = <<>> /\ wpath = <<>>
    /\ tpc = <<>> /\ buf = <<>> /\ tdone = <<>>
    /\ estimated_size = <<>>
    /\ pbOwner = 0
    /\ pbPoisoned = FALSE
    /\ cw = <<>>
    /\ buf_lock = <<>>
    /\ run = 0
    /\ firstOut = <<>>
    /\ firstResult = "none"

PlanInit ==
    /\ ChunkIdle
    /\ ReadIdle
    /\ PatchIdle
    /\ dm_manifest \in DiffManifests
    /\ chunk_names \in {<<"blob1">>, <<"blob2", "blob1">>}
    /\ dm_pc = "asset"
    /\ dm_g = 1
    /\ dm_k = 0
    /\ hdiff_files = <<>>
    /\ hdiff_map = <<>>

\* ldiff.rs:197-200, 222-225: the outer filter_map visits asset group dm_g
DiffMapAsset ==
    /\ dm_pc = "asset"
    /\ IF dm_g > Len(dm_manifest)
       THEN /\ dm_pc' = "flatten"
            /\ UNCHANGED <<dm_g, dm_k, hdiff_files>>
       ELSE IF ~dm_manifest[dm_g].asset_data.some
       THEN /\ dm_g' = dm_g + 1
            /\ UNCHANGED <<dm_pc, dm_k, hdiff_files>>
       ELSE IF dm_manifest[dm_g].asset_data.assets = <<>>
       THEN /\ dm_g' = dm_g + 1
            /\ hdiff_files' = Append(hdiff_files, <<>>)
            /\ UNCHANGED <<dm_pc, dm_k>>
       ELSE /\ dm_pc' = "chunk"
            /\ dm_k' = 1
            /\ hdiff_files' = Append(hdiff_files, <<>>)
            /\ UNCHANGED dm_g
    /\ UNCHANGED <<chunkVars, readVars, patchVars, dm_manifest, chunk_names, hdiff_map>>

\* ldiff.rs:201-221: the inner filter / filter_map visits Asset record dm_k
DiffMapChunk ==
    /\ dm_pc = "chunk"
    /\ LET group == dm_manifest[dm_g]
           asset == group.asset_data.assets[dm_k]
           n == Len(hdiff_files)
       IN /\ hdiff_files' =
                IF Available(chunk_names, asset)
                THEN [hdiff_files EXCEPT ![n] =
                         hdiff_files[n] \o DiffEntries(group.asset_name, group.asset_size, asset)]
                ELSE hdiff_files
          /\ IF dm_k = Len(group.asset_data.assets)
             THEN /\ dm_pc' = "asset" /\ dm_g' = dm_g + 1 /\ dm_k' = 0
             ELSE /\ dm_k' = dm_k + 1 /\ UNCHANGED <<dm_pc, dm_g>>
    /\ UNCHANGED <<chunkVars, readVars, patchVars, dm_manifest, chunk_names, hdiff_map>>

\* ldiff.rs:226-228: the per-group vectors are flattened into the plan
DiffMapFlatten ==
    /\ dm_pc = "flatten"
    /\ hdiff_map' = Flatten(hdiff_files)
    /\ dm_pc' = "done"
    /\ UNCHANGED <<chunkVars, readVars, patchVars, dm_manifest, chunk_names, dm_g, dm_k, hdiff_files>>

PlanNext == DiffMapAsset \/ DiffMapChunk \/ DiffMapFlatten

PlanSpec == PlanInit /\ [][PlanNext]_vars

\* the chunk writer of chunk k of asset a copies its payload in this step
Copies(a, k) ==
    /\ tpc[a] = "copy" /\ tpc'[a] = "copy"
    /\ k \notin tdone[a] /\ k \in tdone'[a]
    /\ k \in StagedChunks(a)
    /\ StagedData(a, k) # <<>>

\* C28: a chunk writer that copies a payload to a non-negative offset
\* leaves the buffer at least offset + payload length long, with the
\* whole payload at its offset, every other byte as it was and the bytes
\* of a grown part zero; and no step of an assembly shortens the buffer.
C28_CopyWithinBuffer ==
    [][ \A a \in Assets :
          /\ (tpc[a] = "copy" /\ tpc'[a] \in {"copy", "done"})
                 => Len(buf'[a]) >= Len(buf[a])
          /\ \A k \in 1..Len(manifest[a].asset_chunks) :
                LET offset == manifest[a].asset_chunks[k].chunk_on_file_offset
                    payload == StagedData(a, k)
                IN (Copies(a, k) /\ offset >= 0) =>
                      /\ Len(buf'[a]) >= offset + Len(payload)
                      /\ Len(buf'[a]) = Max({Len(buf[a]), offset + Len(payload)})
                      /\ \A i \in 1..Len(buf'[a]) :
                            buf'[a][i] =
                               IF i \in StagedRange(a, k) THEN payload[i - offset]
                               ELSE IF i <= Len(buf[a]) THEN buf[a][i]
                               ELSE 0 ]_vars

\* C28 witness: the writer of the chunk at offset 60 ran first and grew
\* the empty buffer to the end of its payload, zeros below it.
C28_Witness ==
    \E a \in Assets :
        /\ pc = "join" /\ tpc[a] = "copy"
        /\ tdone[a] = {2}
        /\ 2 \in StagedChunks(a)
        /\ manifest[a].asset_chunks[2].chunk_on_file_offset = 60
        /\ StagedData(a, 2) # <<>>
        /\ Len(buf[a]) = 60 + Len(StagedData(a, 2))
        /\ \A i \in 1..60 : buf[a][i] = 0

\* C28, overlapping destinations: both payloads were copied, the buffer
\* reaches past the end of the first.
C28_CopiedInside ==
    \E a \in Assets :
        /\ pc = "join" /\ tpc[a] = "copy"
        /\ tdone[a] = {1, 2}
        /\ StagedChunks(a) = {1, 2}
        /\ ~DisjointStaged(a)
        /\ Len(buf[a]) > manifest[a].asset_chunks[1].chunk_on_file_offset
                            + Len(StagedData(a, 1))

\* the writers of asset a that hold the buffer's mutex
Inside(a) ==
    { k \in 1..Len(manifest[a].asset_chunks) : cw[a][k] \in {"locked", "resized"} }
\* the writers of asset a that have copied a payload
HaveCopied(a) ==
    { k \in StagedChunks(a) : cw[a][k] = "done" /\ StagedData(a, k) # <<>> }
\* the buffers that the writers S of asset a leave when they run one
\* after the other, each one's resize and copy as a whole, in any order
RECURSIVE SerialBufs(_, _)
SerialBufs(a, S) ==
    IF S = {} THEN {<<>>}
    ELSE UNION { { GrowAndCopy(b, manifest[a].asset_chunks[k].chunk_on_file_offset,
                               StagedData(a, k)) : b \in SerialBufs(a, S \ {k}) } :
                 k \in S }

\* C29: of the chunk writers of one asset at most one is between taking
\* the buffer's mutex and the end of its copy, and it is the holder of
\* that asset's mutex; the buffer is changed only by a step of the holder,
\* no other writer of the asset moves in that step, and the holder copies
\* into a buffer that is as long as its resize left it; so whenever the
\* mutex is free the buffer is what the writers that have copied leave
\* when they run one after the other, overlapping ranges included.
C29_WritersExclusive ==
    /\ [](\A a \in Assets :
             /\ Cardinality(Inside(a)) <= 1
             /\ Inside(a) = IF buf_lock[a] = 0 THEN {} ELSE {buf_lock[a]}
             /\ \A k \in 1..Len(manifest[a].asset_chunks) :
                   cw[a][k] = "resized" =>
                      Len(buf[a]) >= manifest[a].asset_chunks[k].chunk_on_file_offset
                                        + Len(StagedData(a, k))
             /\ (tpc[a] = "copy" /\ buf_lock[a] = 0)
                    => buf[a] \in SerialBufs(a, HaveCopied(a)))
    /\ [][ \A a \in Assets :
             (tpc[a] = "copy" /\ tpc'[a] = "copy" /\ buf'[a] # buf[a]) =>
                /\ buf_lock[a] # 0
                /\ cw'[a][buf_lock[a]] # cw[a][buf_lock[a]]
                /\ \A j \in 1..Len(manifest[a].asset_chunks) :
                      j # buf_lock[a] => cw'[a][j] = cw[a][j] ]_vars

\* C29 witness: two writers with overlapping destination ranges; one has
\* resized the buffer and not copied yet, the other has read its payload
\* and waits for the mutex.
C29_Witness ==
    \E a \in Assets :
        /\ tpc[a] = "copy"
        /\ StagedChunks(a) = {1, 2}
        /\ ~DisjointStaged(a)
        /\ cw[a][1] = "resized" /\ buf_lock[a] = 1
        /\ cw[a][2] = "read"
        /\ buf[a] # <<>>

\* C29, after both: the overlapping payloads were copied one after the
\* other, the second over the first.
C29_BothCopied ==
    \E a \in Assets :
        /\ tpc[a] = "copy"
        /\ StagedChunks(a) = {1, 2}
        /\ ~DisjointStaged(a)
        /\ HaveCopied(a) = {1, 2}
        /\ Cardinality(SerialBufs(a, {1, 2})) = 2
        /\ buf[a] \in SerialBufs(a, {1, 2})

\* the bytes blob b holds at [offset, offset + size)
BlobRange(b, offset, size) ==
    [i \in 1..size |-> BlobByte(chunk_entries[b].seed, offset + i - 1)]
\* the chunk names the manifest references
Referenced ==
    { n \in ChunkNames :
        \E a \in Assets : \E k \in 1..Len(manifest[a].asset_chunks) :
            manifest[a].asset_chunks[k].chunk_name = n }
\* the files extraction has staged, as (directory, chunk name) pairs
StagedFiles ==
    { dn \in DirIds \X ChunkNames : dirs[dn[1]].files[dn[2]].exists }

\* C30 (as claimed): while chunks are extracted and assembled, every
\* staged file has the name of a chunk the manifest references and holds
\* the bytes [offset, offset + size) of a blob, whole and inside the blob,
\* for the manifest's decompressed size of that chunk and an offset that
\* the blob's index store lists for it; and a worker whose range would run
\* past the end of its blob writes nothing.
C30_StagedIsIndexedSlice ==
    /\ [](pc \in {"extract", "join"} =>
             \A dn \in StagedFiles :
                /\ dn[2] \in Referenced
                /\ \E b \in Blobs : \E offset \in OwnOffsets(b, dn[2]) :
                      /\ offset + cache_list[dn[2]] <= chunk_entries[b].size
                      /\ dirs[dn[1]].files[dn[2]].data
                            = BlobRange(b, offset, cache_list[dn[2]]))
    /\ [][ \A b \in Blobs :
             (/\ pc = "extract" /\ wpc[b] = "stage" /\ wq'[b] = Tail(wq[b])
              /\ Head(wq[b]).offset + Head(wq[b]).size > chunk_entries[b].size)
             => dirs' = dirs ]_vars

\* C30 with the index store that is open, the first blob's, in place of
\* the index store of the blob that is read.
C30_StagedIsSliceAtOpenedOffset ==
    /\ [](pc \in {"extract", "join"} =>
             \A dn \in StagedFiles :
                /\ dn[2] \in Referenced
                /\ \E b \in Blobs : \E offset \in OwnOffsets(database.blob, dn[2]) :
                      /\ offset + cache_list[dn[2]] <= chunk_entries[b].size
                      /\ dirs[dn[1]].files[dn[2]].data
                            = BlobRange(b, offset, cache_list[dn[2]]))
    /\ [][ \A b \in Blobs :
             (/\ pc = "extract" /\ wpc[b] = "stage" /\ wq'[b] = Tail(wq[b])
              /\ Head(wq[b]).offset + Head(wq[b]).size > chunk_entries[b].size)
             => dirs' = dirs ]_vars

\* C30, what breaks it: the staged c2 holds bytes of the second blob,
\* whose own index store does not list c2.
C30_StagedWithoutIndexEntry ==
    /\ pc = "join"
    /\ Len(chunk_entries) = 2
    /\ OwnOffsets(2, "c2") = {}
    /\ dirs[TempPath].files["c2"].exists
    /\ dirs[TempPath].files["c2"].data = BlobRange(2, 60, 40)

\* C30, a chunk that is left out: the index lists c2 at 80, its 40 bytes
\* would end past the 100 bytes of the blob, and only c1 is staged.
C30_PastTheEndNotStaged ==
    /\ pc = "join"
    /\ Len(chunk_entries) = 1
    /\ chunk_entries[1].size = SmallBlobLen
    /\ OwnOffsets(1, "c2") = {80}
    /\ "c2" \in Referenced
    /\ StagedFiles = {<<RelativeChunkTmp, "c1">>}

\* ---------------------------------------------------- make_diff_map claims
\* the Asset record the inner iterator is visiting (dm_pc = "chunk")
VisitedGroup == dm_manifest[dm_g]
VisitedAsset == dm_manifest[dm_g].asset_data.assets[dm_k]
VisitingAvailable == dm_pc = "chunk" /\ Available(chunk_names, VisitedAsset)
\* the plan emitted so far, in order
PlanSoFar == Flatten(hdiff_files)
\* the returned plan is what was emitted
ReturnsEmitted == dm_pc' = "done" => hdiff_map' = PlanSoFar

ScenarioC ==
    <<[asset_name |-> "data.bin", asset_size |-> 200,
       asset_data |-> SomeAssetData(<<[chunk_file_name |-> "blob1",
                                       original_file_size |-> 0,
                                       original_file_path |-> "",
                                       hdiff_file_size |-> 50]>>)]>>

\* C3: visiting an available Asset record with original_file_size != 0 emits
\* exactly one entry, {source: original_file_path, target: asset name,
\* patch: asset name + ".hdiff"}, whatever the payload size, and the
\* returned plan is the emitted one.
C3_FullDiffEntry ==
    [][ /\ (VisitingAvailable /\ VisitedAsset.original_file_size # 0)
           => PlanSoFar' = Append(PlanSoFar,
                  [source_file_name |-> VisitedAsset.original_file_path,
                   target_file_name |-> VisitedGroup.asset_name,
                   patch_file_name |-> VisitedGroup.asset_name \o ".hdiff"])
        /\ ReturnsEmitted ]_vars

\* C3 witness: a returned plan that holds the full-diff entry of an
\* available record whose payload size equals the asset size.
C3_Witness ==
    /\ dm_pc = "done"
    /\ Len(dm_manifest) = 1
    /\ dm_manifest[1].asset_data.some
    /\ Len(dm_manifest[1].asset_data.assets) = 1
    /\ Available(chunk_names, dm_manifest[1].asset_data.assets[1])
    /\ dm_manifest[1].asset_data.assets[1].original_file_size # 0
    /\ dm_manifest[1].asset_data.assets[1].hdiff_file_size = dm_manifest[1].asset_size
    /\ hdiff_map = <<[source_file_name |-> dm_manifest[1].asset_data.assets[1].original_file_path,
                      target_file_name |-> "data.bin",
                      patch_file_name |-> "data.bin.hdiff"]>>

\* C4 (as claimed): visiting an available Asset record with
\* original_file_size = 0 and payload size != asset size emits exactly one
\* entry, and its source is empty whatever original_file_path contains.
C4_PayloadOnlySourceEmpty ==
    [][ (/\ VisitingAvailable
         /\ VisitedAsset.original_file_size = 0
         /\ VisitedAsset.hdiff_file_size # VisitedGroup.asset_size)
        => /\ Len(PlanSoFar') = Len(PlanSoFar) + 1
           /\ SubSeq(PlanSoFar', 1, Len(PlanSoFar)) = PlanSoFar
           /\ PlanSoFar'[Len(PlanSoFar')].source_file_name = "" ]_vars

\* C5 (as claimed): every payload-only entry's patch name is the asset name
\* with the ".hdiff" suffix; scenario C returns exactly
\* {source: "", target: "data.bin", patch: "data.bin.hdiff"}.
C5_PayloadPatchHasSuffix ==
    dm_pc = "done" =>
        /\ \A i \in 1..Len(hdiff_map) :
              hdiff_map[i].patch_file_name = hdiff_map[i].target_file_name \o ".hdiff"
        /\ dm_manifest = ScenarioC =>
              hdiff_map = <<[source_file_name |-> "", target_file_name |-> "data.bin",
                             patch_file_name |-> "data.bin.hdiff"]>>

\* C5 (amended): visiting an available Asset record with
\* original_file_size = 0 and payload size != asset size emits one entry
\* whose patch name is the asset name itself, without suffix; scenario C
\* returns exactly {source: "", target: "data.bin", patch: "data.bin"}.
C5_PayloadPatchIsAssetName ==
    /\ [][ (/\ VisitingAvailable
            /\ VisitedAsset.original_file_size = 0
            /\ VisitedAsset.hdiff_file_size # VisitedGroup.asset_size)
           => /\ Len(PlanSoFar') = Len(PlanSoFar) + 1
              /\ SubSeq(PlanSoFar', 1, Len(PlanSoFar)) = PlanSoFar
              /\ PlanSoFar'[Len(PlanSoFar')].target_file_name = VisitedGroup.asset_name
              /\ PlanSoFar'[Len(PlanSoFar')].patch_file_name = VisitedGroup.asset_name ]_vars
    /\ [](dm_pc = "done" /\ dm_manifest = ScenarioC
            => hdiff_map = <<[source_file_name |-> "", target_file_name |-> "data.bin",
                              patch_file_name |-> "data.bin"]>>)

\* C5 witness: scenario C has returned its one payload-only entry.
C5_Witness ==
    /\ dm_pc = "done"
    /\ dm_manifest = ScenarioC
    /\ Len(hdiff_map) = 1
    /\ hdiff_map[1].target_file_name = "data.bin"

\* the outcome of visiting one record: "none", "full diff" or "payload only"
StepOutcome ==
    IF PlanSoFar' = PlanSoFar THEN "none"
    ELSE IF /\ Len(PlanSoFar') = Len(PlanSoFar) + 1
            /\ SubSeq(PlanSoFar', 1, Len(PlanSoFar)) = PlanSoFar
         THEN IF PlanSoFar'[Len(PlanSoFar')].patch_file_name
                    = PlanSoFar'[Len(PlanSoFar')].target_file_name \o ".hdiff"
              THEN "full diff" ELSE "payload only"
         ELSE "other"

\* C6: an available Asset record has exactly one of three outcomes, fixed by
\* original_file_size != 0 and payload size != asset size alone; with
\* original_file_size = 0 and payload size = asset size nothing is emitted.
C6_ThreeOutcomes ==
    [][ VisitingAvailable =>
          StepOutcome =
             IF VisitedAsset.original_file_size # 0 THEN "full diff"
             ELSE IF VisitedAsset.hdiff_file_size # VisitedGroup.asset_size
                  THEN "payload only"
                  ELSE "none" ]_vars

\* C6 witness: a manifest whose only record is available, has
\* original_file_size = 0 and payload size = asset size, returned no entry.
C6_Witness ==
    /\ dm_pc = "done"
    /\ Len(dm_manifest) = 1
    /\ dm_manifest[1].asset_data.some
    /\ Len(dm_manifest[1].asset_data.assets) = 1
    /\ Available(chunk_names, dm_manifest[1].asset_data.assets[1])
    /\ dm_manifest[1].asset_data.assets[1].original_file_size = 0
    /\ dm_manifest[1].asset_data.assets[1].hdiff_file_size = dm_manifest[1].asset_size
    /\ hdiff_map = <<>>

\* the Asset records make_diff_map has visited, as (group, record) pairs
Visited ==
    { gk \in (1..Len(dm_manifest)) \X (1..MaxGroupChunks) :
        /\ dm_manifest[gk[1]].asset_data.some
        /\ gk[2] <= Len(dm_manifest[gk[1]].asset_data.assets)
        /\ \/ gk[1] < dm_g
           \/ dm_pc \in {"flatten", "done"}
           \/ gk[1] = dm_g /\ dm_pc = "chunk" /\ gk[2] < dm_k }

\* C27: make_diff_map visits the asset groups in manifest order and the
\* records of a group in their order; a visit appends to the end of the
\* plan or leaves it alone, and appends only for a record of a group with
\* chunk data whose chunk file name is among the folder's entry names;
\* the returned plan is the concatenation, in that order, of the entries
\* of the available records, a function of the manifest and the names.
C27_PlanInManifestOrder ==
    /\ [][ /\ \/ dm_g' > dm_g
              \/ dm_g' = dm_g /\ dm_k' > dm_k
              \/ dm_g' = dm_g /\ dm_k' = dm_k /\ dm_pc' # dm_pc
           /\ Visited \subseteq Visited'
           /\ Len(PlanSoFar') >= Len(PlanSoFar)
           /\ SubSeq(PlanSoFar', 1, Len(PlanSoFar)) = PlanSoFar
           /\ PlanSoFar' # PlanSoFar =>
                 /\ dm_pc = "chunk"
                 /\ dm_manifest[dm_g].asset_data.some
                 /\ \E n \in 1..Len(chunk_names) :
                        chunk_names[n] = VisitedAsset.chunk_file_name
                 /\ \A i \in (Len(PlanSoFar) + 1)..Len(PlanSoFar') :
                        PlanSoFar'[i].target_file_name = VisitedGroup.asset_name ]_vars
    /\ [](dm_pc = "done" => hdiff_map = MakeDiffMap(dm_manifest, chunk_names))

\* C27 witness: a returned plan of two groups: the first group's record
\* from a blob that is not in the folder gave no entry, its second record
\* and the second group's record gave the two entries, in that order.
C27_Witness ==
    /\ dm_pc = "done"
    /\ Len(dm_manifest) = 2
    /\ chunk_names = <<"blob1">>
    /\ dm_manifest[1].asset_data.some /\ dm_manifest[2].asset_data.some
    /\ Len(dm_manifest[1].asset_data.assets) = 2
    /\ dm_manifest[1].asset_data.assets[1].chunk_file_name = "blob2"
    /\ Len(hdiff_map) = 2
    /\ hdiff_map[1].target_file_name = "data.bin"
    /\ hdiff_map[2].target_file_name = AssetNames[2]

\* ------------------------------------------ slice readers (ChunkSliceReader)
\* ldiff_file's offsets, sizes and blob lengths are counted in KiB (all are
\* multiples of 1024 bytes), so that values of 2^31 bytes and above can be
\* written: 2^31 bytes are 2 * 1024 * 1024 KiB.
\* ldiff.rs:42 `file_size > 10 * 1024 * 1024`
LdiffLargeFile == 10 * 1024
\* ldiff.rs:42 `data.hdiff_file_size > 1 * 1024 * 1024`
LdiffLargePayload == 1024
\* 2^31 bytes and 2^32 bytes: the range of an i32
I32Half == 2 * 1024 * 1024
I32Modulus == 4 * 1024 * 1024

\* ldiff.rs:66-67, 75-76 `value as i32` of a non-negative i64
AsI32(v) ==
    LET w == v % I32Modulus
    IN IF w >= I32Half THEN w - I32Modulus ELSE w

\* ldiff.rs:46-58: the slice [start, end) of the mapped blob
LdiffMmapRead(blob_len, offset, size) ==
    LET start == offset
        end == start + size
    IN IF end <= blob_len THEN Run(start, size) ELSE NoResult

\* ldiff.rs:116-137: `offset as u64` of a negative i32 is above i64::MAX, a
\* position seek rejects; `size as usize` of a negative i32 is a length
\* vec! cannot allocate; read_exact fails when the file ends too early
read_buffer_with_bufreader(blob_len, offset, size) ==
    IF offset < 0 THEN NoResult
    ELSE IF size < 0 THEN Panicked
    ELSE LET avail == IF offset >= blob_len THEN 0 ELSE blob_len - offset
         IN IF avail < size THEN NoResult ELSE Run(offset, size)

\* ldiff.rs:64-68, 73-77: the buffered path as ldiff_file calls it
LdiffBufferedRead(blob_len, offset, size) ==
    read_buffer_with_bufreader(blob_len, AsI32(offset), AsI32(size))

\* chunk.rs:135-136 and 361-373 as outcomes
FileOutcome(file, offset) == IF file.exists THEN Bytes(offset, file.data) ELSE NoResult

\* the blob of the chunk extractor that is read
ReadBlob == Blob(1, rd_input.blob_len, TRUE, NoDb)

ReadInputs ==
    [component : {"chunk"}, blob_len : {SmallBlobLen, LargeBlobLen},
     offset : {0, 60, 80, LargeFileThreshold + 40, LargeFileThreshold + 80},
     size : {40, 60}]
    \cup
    [component : {"ldiff"},
     blob_len : {8, LdiffLargeFile + 8, I32Half + 2048, I32Modulus + 2048},
     offset : {0, 6, LdiffLargeFile, I32Half, I32Half + 1024, I32Modulus + 1024},
     size : {4, LdiffLargePayload + 1, I32Half}]

ReadInit ==
    /\ ChunkIdle
    /\ PlanIdle
    /\ PatchIdle
    /\ rd_input \in ReadInputs
    /\ rd_mapped = Unread
    /\ rd_buffered = Unread

\* the slice is read through the memory-mapped path
ReadMapped ==
    /\ rd_mapped = Unread
    /\ rd_mapped' =
          IF rd_input.component = "chunk"
          THEN FileOutcome(MmapSlice(ReadBlob, rd_input.offset, rd_input.size), rd_input.offset)
          ELSE LdiffMmapRead(rd_input.blob_len, rd_input.offset, rd_input.size)
    /\ UNCHANGED <<chunkVars, planVars, patchVars, rd_input, rd_buffered>>

\* the same slice is read through the buffered path
ReadBuffered ==
    /\ rd_buffered = Unread
    /\ rd_buffered' =
          IF rd_input.component = "chunk"
          THEN FileOutcome(BufReaderSlice(ReadBlob, rd_input.offset, rd_input.size), rd_input.offset)
          ELSE LdiffBufferedRead(rd_input.blob_len, rd_input.offset, rd_input.size)
    /\ UNCHANGED <<chunkVars, planVars, patchVars, rd_input, rd_mapped>>

ReadNext == ReadMapped \/ ReadBuffered

ReadSpec == ReadInit /\ [][ReadNext]_vars

\* ------------------------------------------------------ slice reader claims
PastEnd == rd_input.offset + rd_input.size > rd_input.blob_len

\* C16 (as claimed): for the same blob, offset and length the mapped and the
\* buffered read path yield the same outcome, and both yield no result
\* exactly when [offset, offset + length) runs past the end of the blob, in
\* the chunk extractor and in ldiff_file, below and above 10 MiB.
C16_ReadPathsAgree ==
    (rd_mapped # Unread /\ rd_buffered # Unread) =>
        /\ rd_mapped = rd_buffered
        /\ (rd_mapped = NoResult) <=> PastEnd
        /\ (rd_buffered = NoResult) <=> PastEnd

\* C16 for the chunk extractor alone
C16_ExtractorPathsAgree ==
    (rd_input.component = "chunk" /\ rd_mapped # Unread /\ rd_buffered # Unread) =>
        /\ rd_mapped = rd_buffered
        /\ (rd_mapped = NoResult) <=> PastEnd

\* C16 for ldiff_file with offsets and sizes below 2^31
C16_LdiffPathsAgreeBelowI32 ==
    (/\ rd_input.component = "ldiff" /\ rd_mapped # Unread /\ rd_buffered # Unread
     /\ rd_input.offset < I32Half /\ rd_input.size < I32Half) =>
        /\ rd_mapped = rd_buffered
        /\ (rd_mapped = NoResult) <=> PastEnd

\* -------------------------------------------- extraction before assembly
\* some asset task has been spawned
TaskSpawned == \E a \in Assets : tpc[a] # "none"

\* a blob worker that has not returned from the par_iter closure
WorkerActive(b) == wpc[b] \in {"collect", "stage"}

\* C34: the first asset task is spawned in a step in which no blob worker
\* is active and none has chunks left to stage; while any task exists every
\* worker has returned, and from the spawning on no staging directory
\* changes except by the removal that ends the run.
C34_ExtractionBeforeAssembly ==
    /\ [][ (~TaskSpawned /\ TaskSpawned') =>
              /\ \A b \in Blobs : ~WorkerActive(b) /\ wq[b] = <<>>
              /\ dirs' = dirs ]_vars
    /\ [](TaskSpawned =>
              /\ pc \in {"join", "done"}
              /\ \A b \in Blobs : wpc[b] = "done" /\ wq[b] = <<>>)
    /\ [][ (TaskSpawned /\ dirs' # dirs) =>
              (pc = "join" /\ pc' = "done" /\ AllTasksFinished) ]_vars

\* C34 witness: two blob workers have staged chunks and returned, and an
\* asset task is copying from the staging directory.
C34_Witness ==
    /\ pc = "join"
    /\ Len(chunk_entries) = 2
    /\ \A b \in Blobs : wpc[b] = "done"
    /\ \E n \in ChunkNames : dirs[TempPath].files[n].exists
    /\ \E a \in Assets : tpc[a] = "copy" /\ buf[a] # <<>>

\* C34 witness during extraction: one worker is still staging after the
\* other has returned, and no task exists yet.
C34_StillExtracting ==
    /\ pc = "extract"
    /\ \E b1, b2 \in Blobs : wpc[b1] = "done" /\ wpc[b2] = "stage"
    /\ \E n \in ChunkNames : dirs[TempPath].files[n].exists
    /\ ~TaskSpawned

\* ldiff.rs:42: ldiff_file takes the buffered path for this input without a
\* failure of the mapping
LdiffTakesBuffered ==
    ~(rd_input.blob_len > LdiffLargeFile /\ rd_input.size > LdiffLargePayload)

\* C33 (as claimed): for every offset and size that fit in the blob, values
\* of 2^31 and above included, the buffered read path of ldiff_file reads
\* exactly size bytes starting exactly at the manifest's offset.
C33_BufferedReadExact ==
    (/\ rd_input.component = "ldiff" /\ rd_buffered # Unread
     /\ ~PastEnd) =>
        rd_buffered = Run(rd_input.offset, rd_input.size)

\* C33 on the inputs for which ldiff_file itself chooses the buffered path
C33_ChosenBufferedReadExact ==
    (/\ rd_input.component = "ldiff" /\ rd_buffered # Unread
     /\ LdiffTakesBuffered /\ ~PastEnd) =>
        rd_buffered = Run(rd_input.offset, rd_input.size)

\* C33 below 2^31: without narrowing the buffered path reads the exact range
C33_BufferedReadExactBelowI32 ==
    (/\ rd_input.component = "ldiff" /\ rd_buffered # Unread
     /\ rd_input.offset < I32Half /\ rd_input.size < I32Half
     /\ ~PastEnd) =>
        rd_buffered = Run(rd_input.offset, rd_input.size)

\* C33: a small payload at offset 2^31 of a blob that holds it is not read
C33_HighOffsetNotRead ==
    /\ rd_input.component = "ldiff" /\ LdiffTakesBuffered /\ ~PastEnd
    /\ rd_input.offset = I32Half
    /\ rd_buffered = NoResult

\* C33: a small payload at offset 2^32 + 1 MiB is read from offset 1 MiB
C33_WrappedOffsetRead ==
    /\ rd_input.component = "ldiff" /\ LdiffTakesBuffered /\ ~PastEnd
    /\ rd_input.offset = I32Modulus + 1024
    /\ rd_buffered = Run(1024, rd_input.size)

\* ------------------------------------- patcher: the hdiff and ldiff actions
MaxPlan == 2

\* length of every blob of the ldiff folder, in KiB
LdiffBlobLen == 8

\* Asset records of a diff manifest, with the place of the payload
RunChunkDomain ==
    [chunk_file_name : {"blob1", "blob2"},
     original_file_size : {0, 100},
     original_file_path : {"", "old.bin"},
     hdiff_file_size : {4},
     hdiff_file_in_chunk_offset : {0, 6}]

\* a further record of a group: a second full diff taken from blob1
RunChunkTail ==
    { [chunk_file_name |-> "blob1", original_file_size |-> 100,
       original_file_path |-> "old.bin", hdiff_file_size |-> 4,
       hdiff_file_in_chunk_offset |-> 0] }

RECURSIVE RunChunkSeqs(_)
RunChunkSeqs(n) ==
    IF n = 0 THEN {<<>>}
    ELSE IF n = 1 THEN { <<c>> : c \in RunChunkDomain }
    ELSE { s \o <<c>> : s \in RunChunkSeqs(n - 1), c \in RunChunkTail }

RunFirstGroups ==
    [asset_name : {"data.bin"},
     asset_size : {4, 200},
     asset_data : {NoAssetData}
                  \cup { SomeAssetData(c) :
                           c \in UNION { RunChunkSeqs(n) : n \in 1..MaxGroupChunks } }]

\* the further asset groups: a payload-only asset of blob1, or a full diff
\* whose payload range runs past the end of blob2
RunOtherGroups(i) ==
    [asset_name : {AssetNames[i]},
     asset_size : {200},
     asset_data :
        { SomeAssetData(<<[chunk_file_name |-> "blob1", original_file_size |-> 0,
                           original_file_path |-> "", hdiff_file_size |-> 4,
                           hdiff_file_in_chunk_offset |-> 0]>>),
          SomeAssetData(<<[chunk_file_name |-> "blob2", original_file_size |-> 100,
                           original_file_path |-> "old.bin", hdiff_file_size |-> 4,
                           hdiff_file_in_chunk_offset |-> 6]>>) }]

RECURSIVE RunMoreGroups(_, _)
RunMoreGroups(i, n) ==
    IF i > n THEN {<<>>}
    ELSE { <<g>> \o r : g \in RunOtherGroups(i), r \in RunMoreGroups(i + 1, n) }

RunManifests ==
    UNION { { <<g>> \o r : g \in RunFirstGroups, r \in RunMoreGroups(2, n) } :
            n \in 1..MaxGroups }

\* hdiffmap.json entries
HDiffData(source, target, patch) ==
    [source_file_name |-> source, target_file_name |-> target, patch_file_name |-> patch]

HdiffFirstEntries ==
    { HDiffData("a.bin", "a.bin", "a.bin.hdiff"),
      HDiffData("old.bin", "data.bin", "data.bin.hdiff"),
      HDiffData("b.bin", "b.bin", "b.bin.hdiff") }
HdiffOtherEntries ==
    { HDiffData("a.bin", "a.bin", "a.bin.hdiff"),
      HDiffData("b.bin", "b.bin", "b.bin.hdiff") }

RECURSIVE HdiffPlans(_)
HdiffPlans(n) ==
    IF n = 0 THEN {<<>>}
    ELSE IF n = 1 THEN { <<d>> : d \in HdiffFirstEntries }
    ELSE { s \o <<d>> : s \in HdiffPlans(n - 1), d \in HdiffOtherEntries }

\* ldiff.rs:46-57: the first Asset record of a group that names the entry
Matching(group, entry_name) ==
    IF ~group.asset_data.some THEN <<>>
    ELSE LET hits == { k \in 1..Len(group.asset_data.assets) :
                         group.asset_data.assets[k].chunk_file_name = entry_name }
         IN IF hits = {} THEN <<>>
            ELSE <<[name |-> group.asset_name,
                    asset |-> group.asset_data.assets[CHOOSE k \in hits :
                                                        \A j \in hits : k <= j]]>>

\* ldiff.rs:45-60: matching_assets of one ldiff folder entry, in manifest order
RECURSIVE MatchingAssets(_, _)
MatchingAssets(groups, entry_name) ==
    IF groups = <<>> THEN <<>>
    ELSE Matching(Head(groups), entry_name) \o MatchingAssets(Tail(groups), entry_name)

\* sophon ldiff.rs:42-78: the read path ldiff_file takes and its outcome
LdiffFileRead(blob_len, offset, size) ==
    IF blob_len > LdiffLargeFile /\ size > LdiffLargePayload
    THEN LdiffMmapRead(blob_len, offset, size)
    ELSE LdiffBufferedRead(blob_len, offset, size)

\* PayloadPath with the ".hdiff" extension for every payload
PayloadPath_AlwaysSuffix(data, asset_name) == asset_name \o ".hdiff"

\* sophon ldiff.rs:88-89: where ldiff_file writes the payload
PayloadPath(data, asset_name) ==
    IF data.original_file_size = 0 THEN asset_name ELSE asset_name \o ".hdiff"

\* sophon ldiff.rs:9-113: ldiff_file on one matching asset
LdiffFile(data, asset_name, files) ==
    LET buffer == LdiffFileRead(LdiffBlobLen, data.hdiff_file_in_chunk_offset,
                                data.hdiff_file_size)
    IN IF buffer = Panicked THEN [status |-> "Panic", files |-> files]
       ELSE IF buffer = NoResult THEN [status |-> "Err", files |-> files]
       ELSE [status |-> "Ok", files |-> files \cup {PayloadPath(data, asset_name)}]

\* ldiff.rs:61-68: `ldiff_file(...).await?` for each matching asset in turn
RECURSIVE ExtractMatching(_, _)
ExtractMatching(matching, files) ==
    IF matching = <<>> THEN [status |-> "Ok", files |-> files]
    ELSE LET r == LdiffFile(Head(matching).asset, Head(matching).name, files)
         IN IF r.status # "Ok" THEN r
            ELSE ExtractMatching(Tail(matching), r.files)

PlanEntries == 1..Len(hdiff_map)
Terminal == {"skipped", "failed", "done", "panicked"}

\* the hdiff action after the archive is unpacked and hdiffmap.json is loaded
HdiffInit ==
    /\ ChunkIdle
    /\ ReadIdle
    /\ dm_manifest = <<>> /\ chunk_names = <<>> /\ dm_pc = "idle"
    /\ dm_g = 0 /\ dm_k = 0 /\ hdiff_files = <<>>
    /\ pt_mode = "hdiff"
    /\ pt_pc = "patch"
    /\ hdiff_map \in UNION { HdiffPlans(n) : n \in 1..MaxPlan }
    /\ \E present \in SUBSET {"a.bin", "a.bin.hdiff", "old.bin"} :
          game_files = present \cup {"data.bin.hdiff", "b.bin", "b.bin.hdiff"}
    /\ ldiff_e = 0
    /\ pw = [i \in 1..Len(hdiff_map) |-> "todo"]

\* the ldiff action after the manifest is decoded
LdiffInit ==
    /\ ChunkIdle
    /\ ReadIdle
    /\ dm_manifest \in RunManifests
    /\ chunk_names \in {<<"blob1">>, <<"blob2", "blob1">>}
    /\ dm_pc = "idle" /\ dm_g = 0 /\ dm_k = 0 /\ hdiff_files = <<>>
    /\ hdiff_map = <<>>
    /\ pt_mode = "ldiff"
    /\ pt_pc = "extract"
    /\ game_files \in SUBSET {"old.bin", "data.bin"}
    /\ ldiff_e = 1
    /\ pw = <<>>

PatchInit ==
    /\ HdiffInit \/ LdiffInit
    /\ pt_result = "none"
    /\ pt_owner = 0
    /\ pt_poisoned = FALSE
    /\ err_list = <<>>
    /\ reported = <<>>
    /\ exe_cell = 0
    /\ exe_dir = FALSE
    /\ extractions = 0
    /\ gp = <<>>
    /\ gp_init = 0

\* ldiff.rs:32-69: the next entry of the ldiff folder is extracted; the
\* first ldiff_file error ends ldiff
LdiffExtract ==
    /\ pt_pc = "extract"
    /\ IF ldiff_e > Len(chunk_names)
       THEN /\ pt_pc' = "plan"
            /\ UNCHANGED <<ldiff_e, game_files, pt_result>>
       ELSE LET r == ExtractMatching(MatchingAssets(dm_manifest, chunk_names[ldiff_e]),
                                     game_files)
            IN /\ game_files' = r.files
               /\ IF r.status = "Ok"
                  THEN /\ ldiff_e' = ldiff_e + 1
                       /\ UNCHANGED <<pt_pc, pt_result>>
                  ELSE /\ pt_pc' = "done"
                       /\ pt_result' = r.status
                       /\ UNCHANGED ldiff_e
    /\ UNCHANGED <<chunkVars, planVars, readVars, pt_mode, pw, pt_owner, pt_poisoned,
                   err_list, reported, hpVars>>

\* ldiff.rs:72-78: make_diff_map over the manifest and the entry names
LdiffPlan ==
    /\ pt_pc = "plan"
    /\ hdiff_map' = MakeDiffMap(dm_manifest, chunk_names)
    /\ pw' = [i \in 1..Len(MakeDiffMap(dm_manifest, chunk_names)) |-> "todo"]
    /\ pt_pc' = "patch"
    /\ UNCHANGED <<chunkVars, readVars, dm_manifest, chunk_names, dm_pc, dm_g, dm_k,
                   hdiff_files, pt_mode, pt_result, game_files, ldiff_e, pt_owner,
                   pt_poisoned, err_list, reported, hpVars>>

MayLockBar_NoWait == TRUE

\* hdiff.rs:52, ldiff.rs:88: Mutex::lock returns when no guard is alive
MayLockBar == pt_owner = 0

\* hdiff.rs:52, ldiff.rs:88: the worker of entry i takes the progress-bar
\* mutex, which it keeps until it returns; lock().unwrap() panics when the
\* mutex is poisoned
PatchLock(i) ==
    /\ pt_pc = "patch"
    /\ i \in PlanEntries
    /\ pw[i] = "todo"
    /\ MayLockBar
    /\ IF pt_poisoned
       THEN /\ pw' = [pw EXCEPT ![i] = "panicked"]
            /\ UNCHANGED pt_owner
       ELSE /\ pw' = [pw EXCEPT ![i] = "locked"]
            /\ pt_owner' = i
    /\ UNCHANGED <<chunkVars, planVars, readVars, pt_mode, pt_pc, pt_result, game_files,
                   ldiff_e, pt_poisoned, err_list, reported, hpVars>>

\* the inputs the worker checks before it runs the applier: hdiff.rs:64-74,
\* ldiff.rs:100-111
InputsExist(data, files) ==
    IF pt_mode = "hdiff"
    THEN data.source_file_name \in files /\ data.patch_file_name \in files
    ELSE /\ data.patch_file_name \in files
         /\ data.source_file_name # "" => data.source_file_name \in files

\* the file the applier writes: hdiff.rs:78-79, ldiff.rs:114-115, 124-125
AppliedPath(data) ==
    IF pt_mode = "ldiff" /\ data.source_file_name = ""
    THEN data.target_file_name \o ".1"
    ELSE data.target_file_name

\* the name pushed to err_list: hdiff.rs:80, ldiff.rs:116, 126
FailedName(data) ==
    IF pt_mode = "hdiff" THEN data.source_file_name ELSE data.target_file_name

\* hdiff.rs:64-81, ldiff.rs:100-127: the existence checks and the applier;
\* apply_patch extracts the executable on first use and fails when that fails
PatchApply(i) ==
    /\ pt_pc = "patch"
    /\ i \in PlanEntries
    /\ pw[i] = "locked"
    /\ IF ~InputsExist(hdiff_map[i], game_files)
       THEN /\ pw' = [pw EXCEPT ![i] = "skipped"]
            /\ pt_owner' = 0
            /\ UNCHANGED <<game_files, err_list, exe_cell, exe_dir, extractions>>
       ELSE \E outcome \in {"no executable", "applier fails", "success"} :
            /\ outcome = "no executable" => exe_cell = 0
            /\ IF exe_cell = 0
               THEN /\ extractions' = extractions + 1
                    /\ exe_cell' = IF outcome = "no executable" THEN 0
                                    ELSE extractions + 1
                    /\ exe_dir' = (exe_dir \/ outcome # "no executable")
               ELSE UNCHANGED <<exe_cell, exe_dir, extractions>>
            /\ IF outcome = "success"
               THEN /\ game_files' = game_files \cup {AppliedPath(hdiff_map[i])}
                    /\ pw' = [pw EXCEPT ![i] = "applied"]
                    /\ UNCHANGED <<err_list, pt_owner>>
               ELSE /\ err_list' = Append(err_list, FailedName(hdiff_map[i]))
                    /\ pw' = [pw EXCEPT ![i] = "failed"]
                    /\ pt_owner' = 0
                    /\ UNCHANGED game_files
    /\ UNCHANGED <<chunkVars, planVars, readVars, pt_mode, pt_pc, pt_result, ldiff_e,
                   pt_poisoned, reported, gp, gp_init>>

\* file operations of a worker after a successful application
Remove(path) == [op |-> "remove_file", path |-> path, to |-> ""]
Rename(path, to) == [op |-> "rename", path |-> path, to |-> to]

\* hdiff.rs:84-85, ldiff.rs:120-136: what the worker removes and renames
\* once the applier has returned success
AfterSuccess(data) ==
    IF pt_mode = "hdiff" THEN <<Remove(data.patch_file_name)>>
    ELSE IF data.source_file_name # ""
    THEN (IF data.source_file_name # data.target_file_name
          THEN <<Remove(data.source_file_name)>> ELSE <<>>)
         \o <<Remove(data.patch_file_name)>>
    ELSE <<Remove(data.target_file_name),
           Rename(data.target_file_name \o ".1", data.target_file_name),
           Remove(data.patch_file_name)>>

\* std::fs::remove_file(..).unwrap() and std::fs::rename(..).unwrap() in
\* turn: an operation on a missing file panics, the earlier ones stay done
RECURSIVE RunFileOps(_, _)
RunFileOps(ops, files) ==
    IF ops = <<>> THEN [panic |-> FALSE, files |-> files]
    ELSE IF Head(ops).path \notin files THEN [panic |-> TRUE, files |-> files]
    ELSE RunFileOps(Tail(ops),
                    IF Head(ops).op = "rename"
                    THEN (files \ {Head(ops).path}) \cup {Head(ops).to}
                    ELSE files \ {Head(ops).path})

\* hdiff.rs:84-86, ldiff.rs:120-137: the deletions, then the worker returns
\* and its guard is dropped; a panic drops the guard too and poisons the mutex
PatchDelete(i) ==
    /\ pt_pc = "patch"
    /\ i \in PlanEntries
    /\ pw[i] = "applied"
    /\ LET r == RunFileOps(AfterSuccess(hdiff_map[i]), game_files)
       IN /\ game_files' = r.files
          /\ pw' = [pw EXCEPT ![i] = IF r.panic THEN "panicked" ELSE "done"]
          /\ pt_poisoned' = (pt_poisoned \/ r.panic)
    /\ pt_owner' = 0
    /\ UNCHANGED <<chunkVars, planVars, readVars, pt_mode, pt_pc, pt_result, ldiff_e,
                   err_list, reported, hpVars>>

\* hdiff.rs:86-92, ldiff.rs:137-143: par_iter().for_each returns when every
\* worker has returned, resuming the panic of a worker; then the error list
\* is printed
PatchReport ==
    /\ pt_pc = "patch"
    /\ \A i \in PlanEntries : pw[i] \in Terminal
    /\ IF \E i \in PlanEntries : pw[i] = "panicked"
       THEN /\ pt_pc' = "done" /\ pt_result' = "Panic"
            /\ UNCHANGED reported
       ELSE /\ pt_pc' = "cleanup"
            /\ reported' = err_list
            /\ UNCHANGED pt_result
    /\ UNCHANGED <<chunkVars, planVars, readVars, pt_mode, game_files, ldiff_e, pw,
                   pt_owner, pt_poisoned, err_list, hpVars>>

Cleanup_KeepsDir(cell, dir) == [ok |-> TRUE, dir |-> dir]

\* hpatchz.rs:119-128: HPatchZ::cleanup; the cached path stays set
Cleanup(cell, dir) ==
    IF cell # 0
    THEN [ok |-> dir, dir |-> FALSE]
    ELSE [ok |-> TRUE, dir |-> dir]

\* hdiff.rs:106-107, ldiff.rs:145-146: `HPatchZ::cleanup()?`; the
\* verification and the final deletion that follow are not part of the
\* patch phase and end with Ok(())
PatchCleanup ==
    /\ pt_pc = "cleanup"
    /\ exe_dir' = Cleanup(exe_cell, exe_dir).dir
    /\ pt_result' = IF Cleanup(exe_cell, exe_dir).ok THEN "Ok" ELSE "Err"
    /\ pt_pc' = "done"
    /\ UNCHANGED <<chunkVars, planVars, readVars, pt_mode, game_files, ldiff_e, pw,
                   pt_owner, pt_poisoned, err_list, reported, exe_cell, extractions,
                   gp, gp_init>>

PatchNext ==
    \/ LdiffExtract
    \/ LdiffPlan
    \/ \E i \in 1..(MaxGroups * MaxGroupChunks + MaxPlan) : PatchLock(i)
    \/ \E i \in 1..(MaxGroups * MaxGroupChunks + MaxPlan) : PatchApply(i)
    \/ \E i \in 1..(MaxGroups * MaxGroupChunks + MaxPlan) : PatchDelete(i)
    \/ PatchReport
    \/ PatchCleanup

PatchSpec == PatchInit /\ [][PatchNext]_vars

PatchTypeOK ==
    /\ pt_mode \in {"hdiff", "ldiff"}
    /\ pt_pc \in {"extract", "plan", "patch", "cleanup", "done"}
    /\ pt_result \in {"none", "Ok", "Err", "Panic"}
    /\ pt_owner \in {0} \cup PlanEntries
    /\ \A i \in PlanEntries : pw[i] \in {"todo", "locked", "applied"} \cup Terminal

\* ------------------------------------------------------ patch phase claims
Failed == { i \in PlanEntries : pw[i] = "failed" }
Count(seq, x) == Cardinality({ k \in 1..Len(seq) : seq[k] = x })
\* err_list holds one name for each failed entry and nothing else
OneNamePerFailure ==
    /\ Len(err_list) = Cardinality(Failed)
    /\ \A i \in Failed :
          Count(err_list, FailedName(hdiff_map[i]))
              = Cardinality({ j \in Failed : FailedName(hdiff_map[j])
                                                = FailedName(hdiff_map[i]) })

\* C23 (as claimed): when the applier has failed for some plan entries,
\* the worker of every entry has still run to its end, skipping an entry
\* only when an input file is missing; the error list holds one name per
\* failed entry; nothing is reported before the batch is over and then the
\* whole list is; and hdiff / ldiff return Ok.
C23_FailuresDoNotStopBatch ==
    /\ [][ \A i \in PlanEntries :
             /\ (pw[i] = "locked" /\ pw'[i] = "skipped")
                    => ~InputsExist(hdiff_map[i], game_files)
             /\ (Failed # {} /\ pw[i] = "todo" /\ pw'[i] # "todo")
                    => pw'[i] = "locked" ]_vars
    /\ []((pt_pc \in {"patch", "cleanup", "done"} /\ Failed # {}) =>
              /\ OneNamePerFailure
              /\ pt_pc = "patch" => reported = <<>>
              /\ pt_pc # "patch" =>
                    /\ reported = err_list
                    /\ \A i \in PlanEntries : pw[i] \in {"failed", "done", "skipped"}
              /\ pt_pc = "done" => pt_result = "Ok")

\* C23 for the runs in which no worker panics.
C23_WithoutPanic ==
    /\ [][ \A i \in PlanEntries :
             (pw[i] = "locked" /\ pw'[i] = "skipped")
                => ~InputsExist(hdiff_map[i], game_files) ]_vars
    /\ []((/\ pt_pc \in {"patch", "cleanup", "done"} /\ Failed # {}
           /\ ~pt_poisoned) =>
              /\ OneNamePerFailure
              /\ pt_pc = "patch" => reported = <<>>
              /\ pt_pc # "patch" =>
                    /\ reported = err_list
                    /\ \A i \in PlanEntries : pw[i] \in {"failed", "done", "skipped"}
              /\ pt_pc = "done" => pt_result = "Ok")

\* C23, a run that ends as claimed: one entry failed, another was applied
\* after it, and the action returned Ok.
C23_FailedAndApplied ==
    /\ pt_pc = "done" /\ pt_result = "Ok"
    /\ Len(hdiff_map) >= 2 /\ pw[1] = "failed" /\ pw[2] = "done"
    /\ reported = <<FailedName(hdiff_map[1])>>

\* C23, what breaks it: an entry failed, the worker of another entry
\* panicked in remove_file(..).unwrap(), and the action panicked.
C23_PanicAfterFailure ==
    /\ pt_pc = "done" /\ pt_result = "Panic"
    /\ \E i \in PlanEntries : pw[i] = "failed"
    /\ reported = <<>>

PatchOf(i) == hdiff_map[i].patch_file_name
SourceOf(i) == hdiff_map[i].source_file_name
\* entry i's worker returns after the applier has succeeded
Returns(i) == pw[i] = "applied" /\ pw'[i] # "applied"

\* C24 (as claimed): a patch file leaves the game directory only in the
\* step of a worker whose applier has returned success on an entry with
\* that patch; such a worker has deleted its patch when it returns; and
\* while an entry is failed its patch file, and in ldiff mode its source
\* file, is in the game directory.
C24_PatchDeletedIffApplied ==
    /\ [][ \A i \in PlanEntries :
             /\ (PatchOf(i) \in game_files /\ PatchOf(i) \notin game_files')
                    => \E j \in PlanEntries : PatchOf(j) = PatchOf(i) /\ Returns(j)
             /\ Returns(i) => PatchOf(i) \notin game_files' ]_vars
    /\ [](\A i \in PlanEntries :
             pw[i] = "failed" =>
                /\ PatchOf(i) \in game_files
                /\ (pt_mode = "ldiff" /\ SourceOf(i) # "")
                       => SourceOf(i) \in game_files)

\* C24 for each worker by itself: only the step of a worker whose applier
\* has returned success removes a patch file, and the step in which the
\* applier fails removes no file at all.
C24_WorkerKeepsPatchOnFailure ==
    [][ \A i \in PlanEntries :
          /\ (PatchOf(i) \in game_files /\ PatchOf(i) \notin game_files')
                 => \E j \in PlanEntries : PatchOf(j) = PatchOf(i) /\ Returns(j)
          /\ (pw[i] = "locked" /\ pw'[i] = "failed") =>
                 /\ game_files' = game_files
                 /\ PatchOf(i) \in game_files
                 /\ (pt_mode = "ldiff" /\ SourceOf(i) # "")
                        => SourceOf(i) \in game_files
          /\ (pw[i] = "applied" /\ pw'[i] = "done")
                 => PatchOf(i) \notin game_files' ]_vars

\* the matching assets of a folder entry whose payload slice can be read
Readable(entry_name) ==
    LET m == MatchingAssets(dm_manifest, entry_name)
    IN { k \in 1..Len(m) : LdiffFile(m[k].asset, m[k].name, {}).status = "Ok" }
\* some matching asset of a folder entry has a payload slice that cannot be read
SliceReadFails ==
    \E e \in 1..Len(chunk_names) :
        Readable(chunk_names[e])
            # 1..Len(MatchingAssets(dm_manifest, chunk_names[e]))

\* C25 (as claimed): in ldiff mode, when the payload slice of an asset
\* cannot be read, the extraction goes on with the next asset, every
\* asset whose slice can be read has its payload extracted when the plan
\* is built, the plan is patched, and ldiff does not return the error.
C25_FailedReadIsRecoverable ==
    (pt_mode = "ldiff" /\ SliceReadFails) =>
        /\ pt_pc = "done" => (ldiff_e > Len(chunk_names) /\ pt_result = "Ok")
        /\ pt_pc = "plan" =>
               \A e \in 1..Len(chunk_names) :
                   LET m == MatchingAssets(dm_manifest, chunk_names[e])
                   IN \A k \in Readable(chunk_names[e]) :
                          PayloadPath(m[k].asset, m[k].name) \in game_files

\* C25, what the code does: the first slice that cannot be read ends
\* ldiff with that error, before any plan is built or patched.
C25_FirstFailedReadAborts ==
    (pt_mode = "ldiff" /\ SliceReadFails) =>
        /\ pt_pc \in {"extract", "done"}
        /\ hdiff_map = <<>>
        /\ pt_pc = "done" =>
               /\ pt_result \in {"Err", "Panic"}
               /\ ldiff_e <= Len(chunk_names)
               /\ Readable(chunk_names[ldiff_e])
                      # 1..Len(MatchingAssets(dm_manifest, chunk_names[ldiff_e]))

\* C25, the aborted run: the slice of blob2's asset cannot be read, and
\* the asset of blob1, whose slice can be read, was never extracted.
C25_AbortedBeforeOtherAsset ==
    /\ pt_mode = "ldiff" /\ pt_pc = "done" /\ pt_result = "Err"
    /\ chunk_names = <<"blob2", "blob1">>
    /\ ldiff_e = 1
    /\ Readable("blob1") # {}
    /\ game_files \subseteq {"old.bin", "data.bin"}

\* a payload-only plan entry: no source, the payload lies at the target path
PayloadOnly(i) ==
    /\ hdiff_map[i].source_file_name = ""
    /\ hdiff_map[i].patch_file_name = hdiff_map[i].target_file_name

\* C31 (as claimed): in ldiff mode, once the patch phase is over, the
\* target of every payload-only entry on which the applier succeeded
\* exists under the install root.
C31_PayloadOnlyTargetExists ==
    (pt_mode = "ldiff" /\ pt_pc \in {"cleanup", "done"}) =>
        \A i \in PlanEntries :
            (PayloadOnly(i) /\ pw[i] = "done")
                => hdiff_map[i].target_file_name \in game_files

\* C31, what the code does: the worker of a payload-only entry on which
\* the applier succeeded moves the applier's output to the target path
\* and then removes the patch path, which is the target path: when the
\* worker returns neither the target nor the output "<target>.1" exists.
C31_PayloadOnlyTargetRemoved ==
    [][ \A i \in PlanEntries :
          (pt_mode = "ldiff" /\ PayloadOnly(i) /\ Returns(i)) =>
             /\ pw'[i] = "done"
             /\ hdiff_map[i].target_file_name \in game_files
             /\ hdiff_map[i].target_file_name \notin game_files'
             /\ AppliedPath(hdiff_map[i]) \notin game_files' ]_vars

\* C31, the run that shows it: a plan of one payload-only entry, the
\* applier succeeded, ldiff returned Ok, and the asset is gone.
C31_AssetGone ==
    /\ pt_mode = "ldiff" /\ pt_pc = "done" /\ pt_result = "Ok"
    /\ Len(hdiff_map) = 1 /\ PayloadOnly(1) /\ pw[1] = "done"
    /\ err_list = <<>>
    /\ hdiff_map[1].target_file_name \notin game_files

\* the asset_size of the group with the given asset name
GroupSize(name) ==
    dm_manifest[CHOOSE g \in 1..Len(dm_manifest) :
                    dm_manifest[g].asset_name = name].asset_size
\* the records ldiff_file has been called for, entry by entry
Extracted ==
    { em \in (1..Len(chunk_names)) \X (1..MaxGroups) :
        /\ em[1] < ldiff_e
        /\ em[2] <= Len(MatchingAssets(dm_manifest, chunk_names[em[1]])) }

\* C32: for every record ldiff_file has extracted, the path it wrote the
\* payload to is the patch_file_name of the entry make_diff_map emits for
\* that record, asset name + ".hdiff" when original_file_size != 0 and the
\* bare asset name otherwise; when make_diff_map emits no entry for the
\* record the payload was written at the target path, the asset name; and
\* until the patch phase starts the payload is there.
C32_PayloadPathIsPatchName ==
    (pt_mode = "ldiff" /\ pt_pc \in {"extract", "plan"}) =>
        \A em \in Extracted :
            LET m == MatchingAssets(dm_manifest, chunk_names[em[1]])[em[2]]
                written == PayloadPath(m.asset, m.name)
                emitted == DiffEntries(m.name, GroupSize(m.name), m.asset)
            IN /\ written \in game_files
               /\ Available(chunk_names, m.asset)
               /\ IF emitted # <<>>
                  THEN /\ Len(emitted) = 1
                       /\ written = emitted[1].patch_file_name
                       /\ written = IF m.asset.original_file_size # 0
                                    THEN m.name \o ".hdiff" ELSE m.name
                  ELSE written = m.name

\* C32 witness: extraction is over; the payload of a full diff lies at
\* "data.bin.hdiff" and that of a payload-only asset at its asset name,
\* and both are the patch names of the plan.
C32_Witness ==
    /\ pt_mode = "ldiff" /\ pt_pc = "plan"
    /\ Len(dm_manifest) = 2
    /\ Cardinality(Extracted) = 2
    /\ LET plan == MakeDiffMap(dm_manifest, chunk_names)
       IN /\ Len(plan) = 2
          /\ plan[1].patch_file_name = "data.bin.hdiff"
          /\ plan[2].patch_file_name = plan[2].target_file_name
          /\ {plan[1].patch_file_name, plan[2].patch_file_name} \subseteq game_files

\* C32 witness without a plan entry: the payload is as large as the asset
\* and was written at the asset's own path.
C32_WrittenAtTarget ==
    /\ pt_mode = "ldiff" /\ pt_pc = "plan"
    /\ MakeDiffMap(dm_manifest, chunk_names) = <<>>
    /\ Cardinality(Extracted) = 1
    /\ "data.bin" \in game_files

\* a worker between its lock() and its return
InProgress(i) == pw[i] \in {"locked", "applied"}

\* C35: in the patch phase of hdiff and of ldiff at most one plan entry is
\* in progress and it is the entry of the worker that holds the
\* progress-bar mutex; a step that runs the applier or deletes and renames
\* files is a step of that worker and moves no other entry.
C35_OneEntryAtATime ==
    /\ [](\A i, j \in PlanEntries : (InProgress(i) /\ InProgress(j)) => i = j)
    /\ [](\A i \in PlanEntries : InProgress(i) <=> pt_owner = i)
    /\ [][ (pt_pc = "patch" /\ \E i \in PlanEntries : InProgress(i)) =>
              \A j \in PlanEntries :
                  pw'[j] # pw[j] => j = pt_owner ]_vars
    /\ [][ (pt_pc = "patch" /\ (<<game_files, err_list, exe_cell>>' # <<game_files, err_list, exe_cell>>)) =>
              /\ pt_owner # 0 /\ InProgress(pt_owner)
              /\ \A j \in PlanEntries \ {pt_owner} : pw'[j] = pw[j] ]_vars

\* C35 witness (hdiff): the applier has run for one entry, whose worker
\* still holds the mutex before its deletion, while another entry waits.
C35_Witness ==
    /\ pt_mode = "hdiff" /\ pt_pc = "patch"
    /\ \E i, j \in PlanEntries :
          /\ i # j /\ pt_owner = i /\ pw[i] = "applied" /\ pw[j] = "todo"
          /\ InputsExist(hdiff_map[j], game_files)

\* C35 witness (ldiff): one entry is done, the next is between its
\* applier and its deletions.
C35_LdiffSecondEntry ==
    /\ pt_mode = "ldiff" /\ pt_pc = "patch"
    /\ \E i, j \in PlanEntries :
          i # j /\ pw[i] = "done" /\ pt_owner = j /\ pw[j] = "applied"

\* ------------------------------------------------ hpatchz: get_exe_path
MaxCallers == 3
MaxExtractions == 3
Callers == 1..MaxCallers

\* a caller of get_exe_path: where it is in the call and what it obtained
Caller(st, path) == [st |-> st, path |-> path]

\* several threads are about to call HPatchZ::get_exe_path for the first time
OnceInit ==
    /\ ChunkIdle
    /\ ReadIdle
    /\ dm_manifest = <<>> /\ chunk_names = <<>> /\ dm_pc = "idle"
    /\ dm_g = 0 /\ dm_k = 0 /\ hdiff_files = <<>> /\ hdiff_map = <<>>
    /\ pt_mode = "none" /\ pt_pc = "idle" /\ pt_result = "none"
    /\ game_files = {} /\ ldiff_e = 0 /\ pw = <<>>
    /\ pt_owner = 0 /\ pt_poisoned = FALSE
    /\ err_list = <<>> /\ reported = <<>>
    /\ exe_cell = 0
    /\ exe_dir \in BOOLEAN
    /\ extractions = 0
    /\ gp = [c \in Callers |-> Caller("idle", 0)]
    /\ gp_init = 0

\* get_or_try_init without the exclusion of initializers
MayInitialize_Racing == TRUE
\* OnceLock::get_or_try_init runs one initializer at a time
MayInitialize == gp_init = 0

\* hpatchz.rs:14-15: the call starts; get_or_try_init returns the cached
\* path when the cell is filled
GetExePath(c) ==
    /\ gp[c].st = "idle"
    /\ gp' = [gp EXCEPT ![c] = IF exe_cell # 0 THEN Caller("got", exe_cell)
                                ELSE Caller("waiting", 0)]
    /\ UNCHANGED <<chunkVars, planVars, readVars, pt_mode, pt_pc, pt_result,
                   game_files, ldiff_e, pw, pt_owner, pt_poisoned, err_list,
                   reported, exe_cell, exe_dir, extractions, gp_init>>

\* hpatchz.rs:15-17: the caller gets its turn to initialize; the cell is
\* looked at again, and the closure runs only when it is still empty
BeginInit(c) ==
    /\ gp[c].st = "waiting"
    /\ MayInitialize
    /\ IF exe_cell # 0
       THEN /\ gp' = [gp EXCEPT ![c] = Caller("got", exe_cell)]
            /\ UNCHANGED gp_init
       ELSE /\ gp' = [gp EXCEPT ![c] = Caller("init", 0)]
            /\ gp_init' = c
    /\ UNCHANGED <<chunkVars, planVars, readVars, pt_mode, pt_pc, pt_result,
                   game_files, ldiff_e, pw, pt_owner, pt_poisoned, err_list,
                   reported, exe_cell, exe_dir, extractions>>

\* hpatchz.rs:21-70 inside get_or_try_init: extract_exe_once runs; Ok
\* fills the cell, Err is returned to the caller and the cell stays empty
ExtractExeOnce(c) ==
    /\ gp[c].st = "init"
    /\ extractions' = extractions + 1
    /\ \E ok \in BOOLEAN :
          /\ ~ok => extractions + 1 < MaxExtractions
          /\ IF ok
             THEN /\ exe_cell' = extractions + 1
                  /\ exe_dir' = TRUE
                  /\ gp' = [gp EXCEPT ![c] = Caller("got", extractions + 1)]
             ELSE /\ \E made \in BOOLEAN : exe_dir' = (exe_dir \/ made)
                  /\ gp' = [gp EXCEPT ![c] = Caller("err", 0)]
                  /\ UNCHANGED exe_cell
    /\ gp_init' = IF gp_init = c THEN 0 ELSE gp_init
    /\ UNCHANGED <<chunkVars, planVars, readVars, pt_mode, pt_pc, pt_result,
                   game_files, ldiff_e, pw, pt_owner, pt_poisoned, err_list,
                   reported>>

\* the caller has returned and calls get_exe_path once more later
CallAgain(c) ==
    /\ gp[c].st \in {"got", "err"}
    /\ gp' = [gp EXCEPT ![c] = Caller("idle", gp[c].path)]
    /\ UNCHANGED <<chunkVars, planVars, readVars, pt_mode, pt_pc, pt_result,
                   game_files, ldiff_e, pw, pt_owner, pt_poisoned, err_list,
                   reported, exe_cell, exe_dir, extractions, gp_init>>

OnceNext ==
    \/ \E c \in Callers : GetExePath(c)
    \/ \E c \in Callers : BeginInit(c)
    \/ \E c \in Callers : ExtractExeOnce(c)
    \/ \E c \in Callers : CallAgain(c)

OnceSpec == OnceInit /\ [][OnceNext]_vars

OnceTypeOK ==
    /\ exe_cell \in 0..MaxExtractions
    /\ extractions \in 0..MaxExtractions
    /\ gp_init \in {0} \cup Callers
    /\ \A c \in Callers :
          /\ gp[c].st \in {"idle", "waiting", "init", "got", "err"}
          /\ gp[c].path \in 0..MaxExtractions

\* C26: under concurrent first calls of get_exe_path at most one caller
\* runs extract_exe_once at a time; every path a caller has obtained, in
\* this call or an earlier one, is the one path in the cell; once the
\* cell is filled it is never changed and extract_exe_once never runs
\* again; a failed extract_exe_once leaves the cell empty, and a caller
\* that then gets its turn runs extract_exe_once again.
C26_InitializedOnce ==
    /\ [](/\ Cardinality({ c \in Callers : gp[c].st = "init" }) <= 1
          /\ \A c \in Callers :
                /\ gp[c].st = "got" => gp[c].path # 0
                /\ gp[c].path # 0 => gp[c].path = exe_cell)
    /\ [][ /\ exe_cell # 0 => (exe_cell' = exe_cell /\ extractions' = extractions)
           /\ \A c \in Callers :
                 /\ (gp[c].st = "init" /\ gp'[c].st = "err") => exe_cell' = 0
                 /\ (gp[c].st = "waiting" /\ gp'[c].st # "waiting" /\ exe_cell = 0)
                        => gp'[c].st = "init" ]_vars

\* C26, its case: an extraction failed, a later one succeeded, one caller
\* got the path from its own extraction, another that waited meanwhile
\* and a third that called again after its failure got the same path.
C26_Witness ==
    /\ extractions >= 2
    /\ \E c, d, f \in Callers :
          /\ c # d /\ d # f /\ c # f
          /\ gp[c] = Caller("got", extractions)
          /\ gp[d] = Caller("got", extractions)
          /\ gp[f] = Caller("got", extractions)

\* ------------------------------------------- hpatchz: cleanup and later use
\* the thread that uses HPatchZ after hdiff or ldiff has returned
LaterCaller == 1

\* hdiff or ldiff with the callers of HPatchZ that come after it
TeardownInit ==
    /\ HdiffInit \/ LdiffInit
    /\ pt_result = "none"
    /\ pt_owner = 0
    /\ pt_poisoned = FALSE
    /\ err_list = <<>>
    /\ reported = <<>>
    /\ exe_cell = 0
    /\ exe_dir = FALSE
    /\ extractions = 0
    /\ gp = [c \in Callers |-> Caller("idle", 0)]
    /\ gp_init = 0

\* hdiff.rs:107-148, ldiff.rs:146-187: the action has returned to main
\* through Ok(()) or through `?`
Returned == pt_pc = "done" /\ pt_result \in {"Ok", "Err"}

\* hpatchz.rs:15-19 called after the action has returned
LaterGetExePath == Returned /\ GetExePath(LaterCaller)
LaterBeginInit == Returned /\ BeginInit(LaterCaller)
LaterExtractExeOnce == Returned /\ ExtractExeOnce(LaterCaller)
LaterCallAgain == Returned /\ CallAgain(LaterCaller)

\* hpatchz.rs:120-128 called once more after the action has returned
LaterCleanup ==
    /\ Returned
    /\ gp[LaterCaller].st \in {"idle", "got", "err"}
    /\ exe_dir' = Cleanup(exe_cell, exe_dir).dir
    /\ pt_result' = IF Cleanup(exe_cell, exe_dir).ok THEN "Ok" ELSE "Err"
    /\ UNCHANGED <<chunkVars, planVars, readVars, pt_mode, pt_pc, game_files, ldiff_e,
                   pw, pt_owner, pt_poisoned, err_list, reported, exe_cell,
                   extractions, gp, gp_init>>

TeardownNext ==
    \/ PatchNext
    \/ LaterGetExePath
    \/ LaterBeginInit
    \/ LaterExtractExeOnce
    \/ LaterCallAgain
    \/ LaterCleanup

TeardownSpec == TeardownInit /\ [][TeardownNext]_vars

\* the step in which hdiff or ldiff runs `HPatchZ::cleanup()?`
CleanupStep == pt_pc = "cleanup" /\ pt_pc' = "done"

\* C36: the cleanup of hdiff and ldiff runs when every patch worker has
\* returned and no worker holds the mutex; with an empty cell it changes
\* nothing and returns Ok, with a filled cell the extraction directory is
\* gone afterwards; the directory is removed by no other step than a
\* cleanup with a filled cell; a filled cell is never changed and nothing
\* is extracted again, so a get_exe_path call after cleanup returns the
\* path of the cell.
C36_CleanupKeepsCachedPath ==
    /\ [][ CleanupStep =>
              /\ \A i \in PlanEntries : pw[i] \in Terminal
              /\ pt_owner = 0
              /\ exe_cell = 0 => (exe_dir' = exe_dir /\ pt_result' = "Ok")
              /\ exe_cell # 0 => ~exe_dir'
              /\ exe_cell' = exe_cell /\ extractions' = extractions ]_vars
    /\ [][ (exe_dir /\ ~exe_dir') =>
              /\ exe_cell # 0 /\ pt_result' = "Ok"
              /\ CleanupStep \/ Returned ]_vars
    /\ [][ (Returned /\ exe_cell = 0 /\ gp' = gp) =>
              (exe_dir' = exe_dir /\ pt_result' \in {pt_result, "Ok"}) ]_vars
    /\ [][ exe_cell # 0 => (exe_cell' = exe_cell /\ extractions' = extractions) ]_vars
    /\ [][ (Returned /\ exe_cell # 0 /\ gp[LaterCaller].st = "idle"
              /\ gp'[LaterCaller].st # "idle") =>
              gp'[LaterCaller] = Caller("got", exe_cell) ]_vars
    /\ [](pt_pc = "cleanup" => \A i \in PlanEntries : pw[i] \in Terminal)

\* C36 witness: a patch was applied, cleanup removed the directory, and a
\* get_exe_path call made afterwards returned the path of the one
\* extraction of the run.
C36_Witness ==
    /\ Returned /\ pt_result = "Ok"
    /\ \E i \in PlanEntries : pw[i] = "done"
    /\ exe_cell # 0 /\ extractions = exe_cell
    /\ ~exe_dir
    /\ gp[LaterCaller] = Caller("got", exe_cell)

\* C36 witness without extraction: every entry was skipped, cleanup
\* returned Ok and nothing was ever extracted.
C36_NeverExtracted ==
    /\ Returned /\ pt_result = "Ok"
    /\ PlanEntries # {} /\ \A i \in PlanEntries : pw[i] = "skipped"
    /\ exe_cell = 0 /\ extractions = 0 /\ ~exe_dir

\* C36: a second cleanup after the directory is gone returns an error
C36_SecondCleanupFails ==
    /\ Returned /\ pt_result = "Err"
    /\ exe_cell # 0 /\ ~exe_dir
    /\ \A i \in PlanEntries : pw[i] \in Terminal \ {"panicked"}
    /\ pt_mode = "hdiff"

\* ------------------------------------------------- chunk_diff: termination
\* task a waits in pb_clone.lock() (chunk.rs:218)
WaitsForBar(a) == a \in Assets /\ pc = "join" /\ tpc[a] = "spawned"

\* writer k of asset a has read its chunk and waits in buf.lock()
\* (chunk.rs:259)
WaitsForBuf(a, k) ==
    /\ a \in Assets /\ k \in 1..Len(manifest[a].asset_chunks)
    /\ tpc[a] = "copy" /\ cw[a][k] = "read"

\* C37: under fair scheduling chunk_diff comes to its end for every
\* manifest and chunk directory, by returning or by the panic of
\* pb.lock().unwrap(), and stays there; at the end every spawned task has
\* ended, so the join has completed, no task waits for the progress-bar
\* mutex, no chunk writer waits for the mutex of a buffer, and neither
\* mutex is held: no wait and no holding of a lock lasts forever.
C37_ChunkDiffTerminates ==
    /\ <>(pc = "done")
    /\ [][pc = "done" => pc' = "done"]_vars
    /\ [](pc = "done" =>
             /\ result \in {"Ok", "Err", "Panic"}
             /\ pbOwner = 0
             /\ \A a \in Assets :
                   /\ tpc[a] \in {"none", "done", "panicked"}
                   /\ buf_lock[a] = 0
                   /\ ~WaitsForBar(a)
                   /\ \A k \in 1..Len(manifest[a].asset_chunks) : ~WaitsForBuf(a, k))

\* C37 witness: chunk_diff has returned Ok after two tasks ran, each of
\* which held the progress-bar mutex, and a writer copied under the
\* mutex of a buffer.
C37_Witness ==
    /\ pc = "done" /\ result = "Ok"
    /\ Len(manifest) = 2
    /\ \A a \in Assets : tpc[a] = "done" /\ buf_lock[a] = 0
    /\ \E a \in Assets : buf[a] # <<>> /\ \E k \in DOMAIN cw[a] : cw[a][k] = "done"
    /\ pbOwner = 0

\* C37 witness of a wait: a task waits for the progress-bar mutex while
\* the holder's writer waits for the buffer's mutex held by another writer.
C37_BothLocksContended ==
    \E a, b \in Assets :
        /\ a # b /\ pbOwner = a /\ tpc[b] = "spawned"
        /\ \E j, k \in DOMAIN cw[a] :
              j # k /\ buf_lock[a] = j /\ cw[a][k] = "read"

\* C37 witness of the end by panic: a writer panicked under both locks and
\* chunk_diff ended with no mutex held.
C37_EndsAfterPanic ==
    /\ pc = "done" /\ result = "Panic"
    /\ \E a \in Assets : \E k \in DOMAIN cw[a] : cw[a][k] = "panicked"
    /\ pbOwner = 0 /\ \A a \in Assets : buf_lock[a] = 0

====
